---- MODULE Spec2Model ----
(***************************************************************************)
(* Topic selection, history and revision tracking of the sheet handlers:   *)
(* SheetHandler (src/sheet_handler.py) as driven by the command line       *)
(* (SheetHandler.process) and by the HTTP API (src/server/app.py).         *)
(*                                                                         *)
(* A Python str is modelled as the sequence of its characters, a Python    *)
(* list as a sequence of its elements.  A JSON scalar that may be a number *)
(* or a string (a topic id) is an IdVal record.                            *)
(***************************************************************************)
EXTENDS Integers, Sequences, FiniteSets, TLC

VARIABLES
    topics,     \* sheet type -> list of topic documents (MongoDB collection)
    history,    \* sheet type -> content of history/<sheet>.json
    revision,   \* sheet type -> lines of revision/<sheet>.txt
    returned,   \* sheet type -> topics returned since the last mark-revision
    nfaults,    \* number of I/O failures so far
    last,       \* observation of the call that completed last
    calls       \* process -> a select-topic call in flight (interleaved runs)

vars == <<topics, history, revision, returned, nfaults, last, calls>>

(***************************************************************************)
(* Bounds of the model.                                                    *)
(***************************************************************************)
\* longest history list a call may still extend
MaxHist == 2
\* most lines a revision file may hold before marking stops
MaxRev == 2
\* number of concurrently running callers in the interleaved specification
NumProcs == 2
\* most I/O failures the environment inflicts in one run
MaxFaults == 1
\* longest list of solved ids remove_solved is applied to on its own
MaxSolved == 2

Procs == 1..NumProcs

(***************************************************************************)
(* Values.                                                                 *)
(***************************************************************************)
IntId(n) == [t |-> "int", n |-> n, s |-> <<>>]
StrId(s) == [t |-> "str", n |-> 0, s |-> s]
NoId == [t |-> "none", n |-> 0, s |-> <<>>]

Digits == <<"0", "1", "2", "3", "4", "5", "6", "7", "8", "9">>

\* decimal digits of a natural number, most significant first
RECURSIVE IntToStr(_)
IntToStr(n) ==
    IF n < 10 THEN <<Digits[n + 1]>>
    ELSE Append(IntToStr(n \div 10), Digits[(n % 10) + 1])

\* Python's str(): digits of a number, a string itself, "None" for None
str(v) ==
    CASE v.t = "int" -> IntToStr(v.n)
      [] v.t = "str" -> v.s
      [] OTHER -> <<"N", "o", "n", "e">>

\* dict.get("id", default): the id field, or the default when the key is missing
get_id(topic, default) == IF topic.id.t = "none" THEN default ELSE topic.id

Range(q) == {q[i] : i \in 1..Len(q)}

RECURSIVE MapStr(_)
MapStr(q) == IF q = <<>> THEN <<>> ELSE <<str(Head(q))>> \o MapStr(Tail(q))

RECURSIVE MapStrId(_)
MapStrId(q) == IF q = <<>> THEN <<>> ELSE <<StrId(Head(q))>> \o MapStrId(Tail(q))

(***************************************************************************)
(* The sheet types with state in this model, and their topic collections.  *)
(***************************************************************************)
Sheets == {"sde_sheet", "dbms_core_sheet"}

\* well-formed documents: one numeric id, one string id of two characters
TopicsNumeric ==
    << [id |-> IntId(7), title |-> "Two Sum"],
       [id |-> StrId(<<"1", "2">>), title |-> "LRU Cache"] >>

\* a collection holding a document without an id field
TopicsNoId ==
    << [id |-> StrId(<<"5">>), title |-> "Normal Forms"],
       [id |-> NoId, title |-> "Indexing"] >>

\* collections of a single well-formed document
TopicsSingle == << [id |-> StrId(<<"3">>), title |-> "Merge Intervals"] >>
TopicsOther == << [id |-> IntId(4), title |-> "Deadlock"] >>

Store(sde, dbms) == [s \in Sheets |-> IF s = "sde_sheet" THEN sde ELSE dbms]

\* the contents of the topic store the model starts from
TopicStores ==
    { Store(TopicsNumeric, <<>>),
      Store(<<>>, TopicsNoId),
      Store(TopicsSingle, TopicsOther) }

(***************************************************************************)
(* Files.                                                                  *)
(***************************************************************************)
\* history/<sheet>.json: missing, or {"solved_ids": <list>}, or {"solved_ids": <str>}
AbsentFile == [kind |-> "absent", val |-> <<>>]
ListFile(items) == [kind |-> "list", val |-> items]
StrFile(chars) == [kind |-> "str", val |-> chars]

\* json.dump({"solved_ids": v}): v is a Python list of str, or a Python str
PyList(q) == [tag |-> "list", v |-> q]
PyStr(q) == [tag |-> "str", v |-> q]
json_dump(pv) ==
    IF pv.tag = "list" THEN ListFile(MapStrId(pv.v)) ELSE StrFile(pv.v)

(***************************************************************************)
(* SheetHandler: the operations of src/sheet_handler.py.                   *)
(***************************************************************************)
\* Config.kDebugMode
kDebugMode == FALSE

\* SheetHandler.should_allow_repeats, set in __init__
should_allow_repeats == FALSE

\* _read_history: the list of solved ids, each converted with str(); the empty
\* list when the file is missing, unreadable, or not {"solved_ids": [...]}
read_history(file, ioOk) ==
    IF file.kind = "absent" THEN <<>>
    ELSE IF ~ioOk THEN <<>>
    ELSE IF file.kind = "list" THEN MapStr(file.val)
    ELSE <<>>

\* _read_history creates a missing history file holding an empty list
read_history_file(file, ioOk) ==
    IF file.kind = "absent" /\ ioOk THEN ListFile(<<>>) ELSE file

\* remove_solved comparing the raw id with the solved strings, without str()
RECURSIVE remove_solved_raw(_, _)
remove_solved_raw(sheet_data, solved_ids) ==
    IF sheet_data = <<>> THEN <<>>
    ELSE LET item == Head(sheet_data)
             rest == remove_solved_raw(Tail(sheet_data), solved_ids)
         IN  IF item.id.t # "str" \/ item.id.s \notin Range(solved_ids)
             THEN <<item>> \o rest
             ELSE rest

\* remove_solved: the items whose str(id) is not among the solved ids, in order
RECURSIVE remove_solved(_, _)
remove_solved(sheet_data, solved_ids) ==
    IF sheet_data = <<>> THEN <<>>
    ELSE LET item == Head(sheet_data)
             rest == remove_solved(Tail(sheet_data), solved_ids)
         IN  IF str(get_id(item, NoId)) \notin Range(solved_ids)
             THEN <<item>> \o rest
             ELSE rest

\* get_random_topic: random.choice is called only on a non-empty list
random_choice_called(filtered_data) == filtered_data # <<>>

\* update_history: the caller's list after history.append(str(new_id))
update_history_list(hist, new_id) ==
    IF kDebugMode \/ new_id = NoId THEN hist ELSE Append(hist, str(new_id))

\* update_history: the history file after json.dump of the extended list; a
\* failed open is logged and leaves the file as it was
update_history_file(file, hist, new_id, ioOk) ==
    IF kDebugMode \/ new_id = NoId THEN file
    ELSE IF ioOk THEN json_dump(PyList(Append(hist, str(new_id))))
    ELSE file

\* mark_revision returns early in debug mode or when its argument is empty
mark_revision_runs(current_history) ==
    ~kDebugMode /\ Len(current_history.v) > 0

\* mark_revision: revision_id = current_history[-1]; indexing a Python str
\* yields the one-character str at that position
revision_id(current_history) ==
    LET x == current_history.v[Len(current_history.v)]
    IN  IF current_history.tag = "str" THEN <<x>> ELSE x

\* mark_revision: history_without_revision = current_history[:-1]
history_without_revision(current_history) ==
    [tag |-> current_history.tag,
     v |-> SubSeq(current_history.v, 1, Len(current_history.v) - 1)]

\* the revision file opened with mode "w": the new line replaces the file
mark_revision_rev_truncating(rev, current_history, ioOk) ==
    IF mark_revision_runs(current_history) /\ ioOk
    THEN <<revision_id(current_history)>>
    ELSE rev

\* mark_revision, step 1: the revision file after appending revision_id
mark_revision_rev(rev, current_history, ioOk) ==
    IF mark_revision_runs(current_history) /\ ioOk
    THEN Append(rev, revision_id(current_history))
    ELSE rev

\* mark_revision, step 2: the history file after dumping current_history[:-1]
mark_revision_file(file, current_history, ioOk) ==
    IF mark_revision_runs(current_history) /\ ioOk
    THEN json_dump(history_without_revision(current_history))
    ELSE file

(***************************************************************************)
(* Observations: what a completed call did, kept for the properties.       *)
(***************************************************************************)
NoCall ==
    [op |-> "init", via |-> "none", sheet |-> "", status |-> 0,
     outcome |-> "none", tix |-> 0, rid |-> <<>>, arg |-> <<>>, ans |-> "",
     solved |-> <<>>, filtered |-> <<>>, rcEmpty |-> FALSE,
     again |-> FALSE, allSeen |-> FALSE,
     hist0 |-> AbsentFile, histSel |-> AbsentFile, fault |-> "none",
     handler |-> "", detail |-> "",
     text |-> <<>>, index |-> [given |-> FALSE, n |-> 0], flag |-> FALSE,
     result |-> <<>>,
     doc |-> [title |-> <<"<absent>">>, name |-> <<"<absent>">>, id |-> <<"<absent>">>],
     title |-> <<>>, link |-> <<>>,
     pc |-> "idle", draws |-> 0, depth |-> 0,
     fname |-> <<>>, subj |-> <<>>,
     chat |-> 0, state |-> "", sent |-> FALSE,
     topic |-> [set |-> FALSE, sheet_type |-> "", topic_id |-> ""],
     selected |-> [set |-> FALSE, sheet_type |-> "", topic_id |-> ""],
     data |-> [k |-> "null", chars |-> <<>>, items |-> <<>>, pairs |-> <<>>],
     flat |-> [exc |-> "none", list |-> <<>>]]

\* positions in the collection of the topics a call has returned
Positions(q) == 1..Len(q)

IndexOf(q, x) == CHOOSE i \in 1..Len(q) : q[i] = x

\* the indexes random.choice may return, 0 standing for "no choice was made"
PickIndexes(filtered_data) ==
    IF random_choice_called(filtered_data) THEN 1..Len(filtered_data) ELSE {0}

Unknown == <<"u", "n", "k", "n", "o", "w", "n">>

\* the except clauses of the endpoints: ValueError -> 400, any other
\* exception (an HTTPException raised inside the try block included) -> 500
endpoint_status(exc) ==
    CASE exc = "none" -> 200
      [] exc = "ValueError" -> 400
      [] OTHER -> 500

\* the detail of the answer: an HTTPException raised inside the try block
\* never reaches the caller, the generic handler replaces it
endpoint_detail(exc, message) ==
    CASE exc = "none" -> ""
      [] exc = "ValueError" -> message
      [] OTHER -> "Internal server error while selecting topic"

\* the history list may still grow (bound of the model)
HistRoom(hist) == Len(hist) < MaxHist
RevRoom(s) == Len(revision[s]) < MaxRev

\* the handler's file_name for a sheet type, in parts: the core sheets share
\* one handler class that builds it from the subject, sheet_type.split("_")[0]
subject(sheet_type) ==
    CASE sheet_type = "dbms_core_sheet" -> "dbms"
      [] sheet_type = "os_core_sheet" -> "os"
      [] sheet_type = "cn_core_sheet" -> "cn"
      [] OTHER -> "sde"

\* one file for every sheet type
file_name_shared(sheet_type) == <<"history">>

file_name(sheet_type) ==
    IF sheet_type \in {"dbms_core_sheet", "os_core_sheet", "cn_core_sheet"}
    THEN <<subject(sheet_type), "_core_sheet">>
    ELSE <<sheet_type>>

\* history/{file_name}.json, revision/{file_name}.txt: writing the file of
\* sheet type s changes what every handler with the same path reads
WriteFile(files, s, content) ==
    [x \in DOMAIN files |->
        IF file_name(x) = file_name(s) THEN content ELSE files[x]]

(***************************************************************************)
(* I/O failures.  A call suffers at most one: f names the operation that   *)
(* fails, "db" the MongoDB find, "read" reading the history file, "write"  *)
(* update_history's write, "rev" the append to the revision file, "write2" *)
(* mark_revision's write of the history file; "none" when all succeed.     *)
(***************************************************************************)
\* the failure f may happen now, and is counted
Inflict(f) ==
    /\ f # "none" => nfaults < MaxFaults
    /\ nfaults' = IF f = "none" THEN nfaults ELSE nfaults + 1

\* a find that is retried until it succeeds
find_retry(collection, dbOk) ==
    [exc |-> "none", docs |-> collection, coll |-> collection]

\* a read that consumes what it returns
find_consuming(collection, dbOk) ==
    IF dbOk THEN [exc |-> "none", docs |-> collection, coll |-> <<>>]
    ELSE [exc |-> "PyMongoError", docs |-> <<>>, coll |-> collection]

\* list(collection.find({})): the documents, or the driver's exception;
\* coll is the collection after the call, a query leaves it as it was
find(collection, dbOk) ==
    IF dbOk THEN [exc |-> "none", docs |-> collection, coll |-> collection]
    ELSE [exc |-> "PyMongoError", docs |-> <<>>, coll |-> collection]

SelectFaults == {"none", "read", "db", "write"}
MarkFaults == {"none", "rev", "write2"}
ProcessFaults == {"none", "db", "read", "write", "rev", "write2"}

(***************************************************************************)
(* POST /select-topic (src/server/app.py, select_topic) for the resolved   *)
(* sheet type s.                                                           *)
(***************************************************************************)
HttpSelectTopic(s, f) ==
    LET file0 == history[s]
        hist == read_history(file0, f # "read")
        file1 == read_history_file(file0, f # "read")
        found == find(topics[s], f # "db")
        data == found.docs
        filtered == IF found.exc = "none" THEN remove_solved(data, hist) ELSE <<>>
        exc == IF found.exc # "none" THEN found.exc
               ELSE IF data = <<>> \/ filtered = <<>> THEN "HTTPException"
               ELSE "none"
        why == IF found.exc # "none" THEN "db_error"
               ELSE IF data = <<>> THEN "no_data"
               ELSE IF filtered = <<>> THEN "no_unsolved"
               ELSE "topic"
    IN  \E k \in PickIndexes(IF exc = "none" THEN filtered ELSE <<>>) :
            LET random_topic == filtered[k]
                topic_id == str(get_id(random_topic, StrId(Unknown)))
                file2 == IF k = 0 THEN file1
                         ELSE update_history_file(file1, hist, StrId(topic_id),
                                                  f # "write")
                tix == IF k = 0 THEN 0 ELSE IndexOf(data, random_topic)
            IN  /\ k # 0 => HistRoom(hist)
                /\ f = "write" => k # 0
                /\ Inflict(f)
                /\ history' = WriteFile(history, s, file2)
                /\ returned' = [returned EXCEPT
                      ![s] = IF k = 0 THEN @ ELSE @ \cup {tix}]
                /\ last' = [NoCall EXCEPT
                      !.op = "select", !.via = "http", !.sheet = s,
                      !.pc = "done", !.depth = 1,
                      !.draws = IF k = 0 THEN 0 ELSE 1,
                      !.status = endpoint_status(exc), !.outcome = why,
                      !.detail = endpoint_detail(exc, why),
                      !.tix = tix,
                      !.rid = IF k = 0 THEN <<>> ELSE topic_id,
                      !.solved = hist, !.filtered = filtered,
                      !.rcEmpty = (k # 0 /\ filtered = <<>>),
                      !.again = (tix \in returned[s]),
                      !.allSeen = (returned[s] = Positions(topics[s])),
                      !.hist0 = file0, !.fault = f]
                /\ topics' = [topics EXCEPT ![s] = found.coll]
                /\ UNCHANGED <<revision, calls>>

(***************************************************************************)
(* POST /mark-revision (src/server/app.py, mark_revision): the handler's   *)
(* mark_revision is called with the request's topic_id, a str.             *)
(***************************************************************************)
HttpMarkRevision(s, topic_id, f) ==
    LET current_history == PyStr(topic_id)
        runs == mark_revision_runs(current_history)
    IN  /\ RevRoom(s)
        /\ f # "none" => runs
        /\ Inflict(f)
        /\ revision' = WriteFile(revision, s,
              mark_revision_rev(revision[s], current_history, f # "rev"))
        /\ history' = WriteFile(history, s,
              mark_revision_file(history[s], current_history, f # "write2"))
        /\ last' = [NoCall EXCEPT
              !.op = "mark", !.via = "http", !.sheet = s,
              !.status = endpoint_status("none"),
              !.outcome = IF runs THEN "marked" ELSE "noop",
              !.arg = topic_id, !.fault = f]
        /\ returned' = [returned EXCEPT ![s] = IF runs THEN {} ELSE @]
        /\ UNCHANGED <<topics, calls>>

(***************************************************************************)
(* SheetHandler.process (src/sheet_handler.py), the command-line call:     *)
(* select a topic, update the history, prompt "Mark for revision? (y/n)"   *)
(* and on "y" call mark_revision with the handler's history list.          *)
(* ans is the answer typed at the prompt ("eof" for end of input).         *)
(***************************************************************************)
CliProcess(s, f, ans) ==
    LET file0 == history[s]
        found == find(topics[s], f # "db")
        data == found.docs
        dbOk == found.exc = "none"
        hist == IF dbOk THEN read_history(file0, f # "read") ELSE <<>>
        file1 == IF dbOk THEN read_history_file(file0, f # "read") ELSE file0
        filtered == IF dbOk THEN remove_solved(data, hist) ELSE <<>>
    IN  \E k \in PickIndexes(filtered) :
            LET random_topic == filtered[k]
                topic_id == get_id(random_topic, NoId)
                repeat == str(topic_id) \in Range(hist) /\ ~should_allow_repeats
                picked == k # 0 /\ topic_id # NoId /\ ~repeat
                why == IF ~dbOk THEN "db_error"
                       ELSE IF k = 0 THEN "no_unsolved"
                       ELSE IF topic_id = NoId THEN "no_id"
                       ELSE IF repeat THEN "repeat"
                       ELSE "topic"
                hist2 == update_history_list(hist, StrId(str(topic_id)))
                file2 == IF picked
                         THEN update_history_file(file1, hist, StrId(str(topic_id)),
                                                  f # "write")
                         ELSE file1
                marks == picked /\ ans = "y"
                current_history == PyList(hist2)
                tix == IF picked THEN IndexOf(data, random_topic) ELSE 0
            IN  /\ picked => HistRoom(hist)
                /\ marks => RevRoom(s)
                /\ f = "write" => picked
                /\ f \in {"rev", "write2"} => marks
                /\ Inflict(f)
                /\ ~picked => ans = "n"
                /\ history' = WriteFile(history, s,
                      IF marks
                      THEN mark_revision_file(file2, current_history,
                                              f # "write2")
                      ELSE file2)
                /\ revision' = WriteFile(revision, s,
                      IF marks
                      THEN mark_revision_rev(revision[s], current_history,
                                             f # "rev")
                      ELSE revision[s])
                /\ last' = [NoCall EXCEPT
                      !.op = "process", !.via = "cli", !.sheet = s,
                      !.pc = "done", !.depth = 1,
                      !.draws = IF k = 0 THEN 0 ELSE 1,
                      !.outcome = why,
                      !.tix = tix,
                      !.rid = IF picked THEN str(topic_id) ELSE <<>>,
                      !.arg = IF marks THEN revision_id(current_history) ELSE <<>>,
                      !.ans = IF picked THEN ans ELSE "",
                      !.solved = hist, !.filtered = filtered,
                      !.rcEmpty = (k # 0 /\ filtered = <<>>),
                      !.again = (tix \in returned[s]),
                      !.allSeen = (dbOk /\ returned[s] = Positions(data)),
                      !.hist0 = file0,
                      !.histSel = IF marks THEN file2 ELSE AbsentFile,
                      !.fault = f]
                /\ returned' = [returned EXCEPT
                      ![s] = IF marks THEN {}
                             ELSE IF picked THEN @ \cup {tix} ELSE @]
                /\ topics' = [topics EXCEPT ![s] = found.coll]
                /\ UNCHANGED calls

(***************************************************************************)
(* get_mongo_client, the dependency of the endpoints: when the connection  *)
(* check fails the endpoint body does not run and the answer is 503.       *)
(***************************************************************************)
Endpoints == {"select", "mark"}

GetMongoClientFails(endpoint) ==
    /\ Inflict("connect")
    /\ last' = [NoCall EXCEPT
          !.op = endpoint, !.via = "http", !.status = 503,
          !.detail = "Database connection failed",
          !.outcome = "db_unavailable", !.fault = "connect"]
    /\ UNCHANGED <<topics, history, revision, returned, calls>>

(***************************************************************************)
(* The sequential specification: calls run one after the other.            *)
(***************************************************************************)
Idle == [pc |-> "idle", via |-> "none", sheet |-> "", hist |-> <<>>,
         rid |-> <<>>, tix |-> 0, outcome |-> "none", one |-> FALSE,
         peers |-> {}]

\* the topic ids a client may send: the ids select-topic reports, and ""
MarkArgs(s) ==
    {str(get_id(topics[s][i], StrId(Unknown))) : i \in 1..Len(topics[s])}
        \cup {<<>>}

Answers == {"y", "n", "eof"}

Init ==
    /\ topics \in TopicStores
    /\ history = [s \in Sheets |-> AbsentFile]
    /\ revision = [s \in Sheets |-> <<>>]
    /\ returned = [s \in Sheets |-> {}]
    /\ nfaults = 0
    /\ last = NoCall
    /\ calls = [p \in Procs |-> Idle]

\* every I/O operation succeeds
Next ==
    \/ \E s \in Sheets : HttpSelectTopic(s, "none")
    \/ \E s \in Sheets :
          \E topic_id \in MarkArgs(s) : HttpMarkRevision(s, topic_id, "none")
    \/ \E s \in Sheets, ans \in Answers : CliProcess(s, "none", ans)

Spec == Init /\ [][Next]_vars

\* a call may suffer an I/O failure
NextIO ==
    \/ \E s \in Sheets, f \in SelectFaults : HttpSelectTopic(s, f)
    \/ \E s \in Sheets, f \in MarkFaults :
          \E topic_id \in MarkArgs(s) : HttpMarkRevision(s, topic_id, f)
    \/ \E s \in Sheets, f \in ProcessFaults, ans \in Answers :
          CliProcess(s, f, ans)
    \/ \E endpoint \in Endpoints : GetMongoClientFails(endpoint)

SpecIO == Init /\ [][NextIO]_vars

(***************************************************************************)
(* remove_solved on its own: applied to every collection of the store and  *)
(* every list of at most MaxSolved solved ids.                             *)
(***************************************************************************)
SolvedIds ==
    { <<"7">>, <<"1", "2">>, <<"3">>, <<"4">>, <<"5">>,
      <<"N", "o", "n", "e">>, Unknown }

SolvedLists == UNION {[1..n -> SolvedIds] : n \in 0..MaxSolved}

ApplyRemoveSolved(s, solved_ids) ==
    /\ last' = [NoCall EXCEPT
          !.op = "remove_solved", !.sheet = s, !.solved = solved_ids,
          !.filtered = remove_solved(topics[s], solved_ids)]
    /\ UNCHANGED <<topics, history, revision, returned, nfaults, calls>>

NextRemoveSolved ==
    \E s \in Sheets, solved_ids \in SolvedLists : ApplyRemoveSolved(s, solved_ids)

SpecRemoveSolved == Init /\ [][NextRemoveSolved]_vars

(***************************************************************************)
(* Interleaved runs.  Each process p is an operating-system process        *)
(* running one select-topic call: a run of the command-line program        *)
(* (SheetHandler.process) or a server process (select_topic).  They share  *)
(* the history files, which the code reads and rewrites whole, without a   *)
(* lock.  A call is three steps on the shared file: _read_history, the     *)
(* choice from the process's own copy, and update_history.                 *)
(***************************************************************************)
Vias == {"cli", "http"}

\* the calls in flight
Running == {q \in Procs : calls[q].pc \notin {"idle", "done"}}

\* the unsolved topics of sheet s as the history file now has it
Unsolved(s) == remove_solved(topics[s], read_history(history[s], TRUE))

\* the handler is created for the resolved sheet type
ConcStart(p, s, via) ==
    /\ calls[p].pc = "idle"
    /\ calls' = [calls EXCEPT ![p] =
          [Idle EXCEPT !.pc = "read", !.via = via, !.sheet = s,
                       !.one = (Len(Unsolved(s)) = 1),
                       !.peers = Running]]
    /\ UNCHANGED <<topics, history, revision, returned, nfaults, last>>

\* history = handler._read_history()
ConcReadHistory(p) ==
    LET s == calls[p].sheet
    IN  /\ calls[p].pc = "read"
        /\ history' = WriteFile(history, s, read_history_file(history[s], TRUE))
        /\ calls' = [calls EXCEPT ![p].pc = "pick",
                                  ![p].hist = read_history(history[s], TRUE)]
        /\ UNCHANGED <<topics, revision, returned, nfaults, last>>

\* remove_solved and get_random_topic on the process's copy of the history
ConcPick(p) ==
    LET s == calls[p].sheet
        hist == calls[p].hist
        data == topics[s]
        filtered == remove_solved(data, hist)
        http == calls[p].via = "http"
    IN  /\ calls[p].pc = "pick"
        /\ \E k \in PickIndexes(filtered) :
              LET random_topic == filtered[k]
                  topic_id == get_id(random_topic,
                                     IF http THEN StrId(Unknown) ELSE NoId)
                  why == IF k = 0
                         THEN IF http /\ data = <<>> THEN "no_data"
                              ELSE "no_unsolved"
                         ELSE IF topic_id = NoId THEN "no_id"
                         ELSE IF ~http /\ str(topic_id) \in Range(hist)
                                 /\ ~should_allow_repeats THEN "repeat"
                         ELSE "topic"
              IN  calls' = [calls EXCEPT
                     ![p].pc = IF why = "topic" THEN "write" ELSE "done",
                     ![p].outcome = IF why = "topic" THEN "none" ELSE why,
                     ![p].rid = IF why = "topic" THEN str(topic_id) ELSE <<>>,
                     ![p].tix = IF why = "topic"
                                THEN IndexOf(data, random_topic) ELSE 0]
        /\ UNCHANGED <<topics, history, revision, returned, nfaults, last>>

\* update_history(history, topic_id): the process's copy, with the new id
\* appended, replaces the file; the topic is then returned to the caller
ConcWrite(p) ==
    LET s == calls[p].sheet
    IN  /\ calls[p].pc = "write"
        /\ history' = WriteFile(history, s,
              update_history_file(history[s], calls[p].hist,
                                  StrId(calls[p].rid), TRUE))
        /\ calls' = [calls EXCEPT ![p].pc = "done", ![p].outcome = "topic"]
        /\ UNCHANGED <<topics, revision, returned, nfaults, last>>

NextConc ==
    \/ \E p \in Procs, s \in Sheets, via \in Vias : ConcStart(p, s, via)
    \/ \E p \in Procs : ConcReadHistory(p)
    \/ \E p \in Procs : ConcPick(p)
    \/ \E p \in Procs : ConcWrite(p)

SpecConc == Init /\ [][NextConc]_vars

(***************************************************************************)
(* The registry of sheet types and the operations that take a sheet type   *)
(* from the caller.                                                        *)
(***************************************************************************)
SHEET_TYPES ==
    {"sde_sheet", "dbms_core_sheet", "os_core_sheet", "cn_core_sheet",
     "lc_sql_50", "must_do_product_gfg", "lc_dsa_75", "microsoft_dsa",
     "phonepe_dsa", "oracle_dsa", "linux_commands", "docker_commands",
     "langgraph", "dsa_common_patterns"}

\* identifiers a caller may send that are not sheet types
Outsiders == {"", "sde", "SDE_SHEET", "ai_core_sheet", "random", "0"}

\* the identifiers of SHEET_TYPES in the order of the list, spelled out
SheetNames ==
    << <<"s", "d", "e", "_", "s", "h", "e", "e", "t">>,
       <<"d", "b", "m", "s", "_", "c", "o", "r", "e", "_", "s", "h", "e", "e", "t">>,
       <<"o", "s", "_", "c", "o", "r", "e", "_", "s", "h", "e", "e", "t">>,
       <<"c", "n", "_", "c", "o", "r", "e", "_", "s", "h", "e", "e", "t">>,
       <<"l", "c", "_", "s", "q", "l", "_", "5", "0">>,
       <<"m", "u", "s", "t", "_", "d", "o", "_", "p", "r", "o", "d", "u", "c", "t", "_", "g", "f", "g">>,
       <<"l", "c", "_", "d", "s", "a", "_", "7", "5">>,
       <<"m", "i", "c", "r", "o", "s", "o", "f", "t", "_", "d", "s", "a">>,
       <<"p", "h", "o", "n", "e", "p", "e", "_", "d", "s", "a">>,
       <<"o", "r", "a", "c", "l", "e", "_", "d", "s", "a">>,
       <<"l", "i", "n", "u", "x", "_", "c", "o", "m", "m", "a", "n", "d", "s">>,
       <<"d", "o", "c", "k", "e", "r", "_", "c", "o", "m", "m", "a", "n", "d", "s">>,
       <<"l", "a", "n", "g", "g", "r", "a", "p", "h">>,
       <<"d", "s", "a", "_", "c", "o", "m", "m", "o", "n", "_", "p", "a", "t", "t", "e", "r", "n", "s">> >>

\* the list SHEET_TYPES
SheetTypeList ==
    <<"sde_sheet",
      "dbms_core_sheet",
      "os_core_sheet",
      "cn_core_sheet",
      "lc_sql_50",
      "must_do_product_gfg",
      "lc_dsa_75",
      "microsoft_dsa",
      "phonepe_dsa",
      "oracle_dsa",
      "linux_commands",
      "docker_commands",
      "langgraph",
      "dsa_common_patterns">>

\* the characters of an identifier of the registry
Spelled(sheet_type) ==
    SheetNames[CHOOSE i \in 1..Len(SheetTypeList) : SheetTypeList[i] = sheet_type]

\* the file_name literal each handler class passes to the base constructor
ClassFileName ==
    [ SDESheetHandler |-> <<"s", "d", "e", "_", "s", "h", "e", "e", "t">>,
      LeetCodeSQLHandler |-> <<"l", "c", "_", "s", "q", "l", "_", "5", "0">>,
      LeetCodeDSA75Handler |-> <<"l", "c", "_", "d", "s", "a", "_", "7", "5">>,
      GFGMustDoProductHandler |-> <<"m", "u", "s", "t", "_", "d", "o", "_", "p", "r", "o", "d", "u", "c", "t", "_", "g", "f", "g">>,
      MicrosoftDSAHandler |-> <<"m", "i", "c", "r", "o", "s", "o", "f", "t", "_", "d", "s", "a">>,
      PhonePeDSAHandler |-> <<"p", "h", "o", "n", "e", "p", "e", "_", "d", "s", "a">>,
      OracleDSAHandler |-> <<"o", "r", "a", "c", "l", "e", "_", "d", "s", "a">>,
      LinuxCommandsHandler |-> <<"l", "i", "n", "u", "x", "_", "c", "o", "m", "m", "a", "n", "d", "s">>,
      DockerCommandsHandler |-> <<"d", "o", "c", "k", "e", "r", "_", "c", "o", "m", "m", "a", "n", "d", "s">>,
      LanggraphHandler |-> <<"l", "a", "n", "g", "g", "r", "a", "p", "h">>,
      DSACommonPatterns |-> <<"d", "s", "a", "_", "c", "o", "m", "m", "o", "n", "_", "p", "a", "t", "t", "e", "r", "n", "s">> ]

\* the subjects CoreSheetHandler accepts
Subjects == {<<"d", "b", "m", "s">>, <<"o", "s">>, <<"c", "n">>}

\* a split that cuts at the last underscore
RECURSIVE split_last(_)
split_last(chars) ==
    IF chars = <<>> THEN <<>>
    ELSE IF chars[Len(chars)] = "_" THEN SubSeq(chars, 1, Len(chars) - 1)
    ELSE IF "_" \notin Range(chars) THEN chars
    ELSE split_last(SubSeq(chars, 1, Len(chars) - 1))

\* sheet_type.split("_")[0]
RECURSIVE split_head(_)
split_head(chars) ==
    IF chars = <<>> \/ Head(chars) = "_" THEN <<>>
    ELSE <<Head(chars)>> \o split_head(Tail(chars))

\* the constructor of the class the factory chose: CoreSheetHandler raises
\* ValueError for a subject it does not know and builds its file_name from
\* the subject, the other classes pass a literal
constructed(cls, chars) ==
    IF cls # "CoreSheetHandler"
    THEN [exc |-> "none", file_name |-> ClassFileName[cls], subject |-> <<>>]
    ELSE IF split_head(chars) \notin Subjects
    THEN [exc |-> "ValueError", file_name |-> <<>>, subject |-> split_head(chars)]
    ELSE [exc |-> "none",
          file_name |-> split_head(chars) \o <<"_", "c", "o", "r", "e", "_", "s", "h", "e", "e", "t">>,
          subject |-> split_head(chars)]

Made(cls) == [exc |-> "none", cls |-> cls]
Raised(exc) == [exc |-> exc, cls |-> ""]

\* the if/elif chain of a factory; otherwise is what its else branch does
handler_chain(sheet_type, otherwise) ==
    CASE sheet_type = "sde_sheet" -> Made("SDESheetHandler")
      [] sheet_type \in {"dbms_core_sheet", "os_core_sheet", "cn_core_sheet"}
            -> Made("CoreSheetHandler")
      [] sheet_type = "lc_sql_50" -> Made("LeetCodeSQLHandler")
      [] sheet_type = "must_do_product_gfg" -> Made("GFGMustDoProductHandler")
      [] sheet_type = "lc_dsa_75" -> Made("LeetCodeDSA75Handler")
      [] sheet_type = "microsoft_dsa" -> Made("MicrosoftDSAHandler")
      [] sheet_type = "phonepe_dsa" -> Made("PhonePeDSAHandler")
      [] sheet_type = "oracle_dsa" -> Made("OracleDSAHandler")
      [] sheet_type = "linux_commands" -> Made("LinuxCommandsHandler")
      [] sheet_type = "docker_commands" -> Made("DockerCommandsHandler")
      [] sheet_type = "langgraph" -> Made("LanggraphHandler")
      [] sheet_type = "dsa_common_patterns" -> Made("DSACommonPatterns")
      [] OTHER -> otherwise

\* SheetHandlerFactory.create_handler of src/server/sheet_handler_factory.py
create_handler(sheet_type) == handler_chain(sheet_type, Raised("ValueError"))

\* the handler classes src/sheet_handlers.py defines
DefinedHandlers ==
    {"SDESheetHandler", "CoreSheetHandler", "LeetCodeSQLHandler",
     "LeetCodeDSA75Handler", "GFGMustDoProductHandler", "MicrosoftDSAHandler",
     "PhonePeDSAHandler", "OracleDSAHandler", "LinuxCommandsHandler",
     "DockerCommandsHandler", "DSACommonPatterns"}

\* the names src/sheet_handler_factory.py imports from that module
ImportedHandlers ==
    {"SDESheetHandler", "CoreSheetHandler", "LeetCodeDSA75Handler",
     "LeetCodeSQLHandler", "GFGMustDoProductHandler", "MicrosoftDSAHandler",
     "PhonePeDSAHandler", "OracleDSAHandler", "LinuxCommandsHandler",
     "DockerCommandsHandler", "DSACommonPatterns", "LanggraphHandler"}

\* SheetHandlerFactory.create_handler of src/sheet_handler_factory.py, reached
\* through the import of its module, which fails when a name is missing
create_handler_cli(sheet_type) ==
    IF ImportedHandlers \subseteq DefinedHandlers
    THEN handler_chain(sheet_type, Raised("ValueError"))
    ELSE Raised("ImportError")

Factories == {"server", "cli"}

CreateHandler(sheet_type, factory) ==
    LET made == IF factory = "server" THEN create_handler(sheet_type)
                ELSE create_handler_cli(sheet_type)
        built == IF made.exc = "none"
                 THEN constructed(made.cls, Spelled(sheet_type))
                 ELSE [exc |-> made.exc, file_name |-> <<>>, subject |-> <<>>]
    IN  /\ last' = [NoCall EXCEPT
              !.op = "create_handler", !.via = factory, !.sheet = sheet_type,
              !.outcome = IF built.exc = "none" THEN "handler" ELSE built.exc,
              !.handler = IF built.exc = "none" THEN made.cls ELSE "",
              !.fname = built.file_name, !.subj = built.subject]
        /\ UNCHANGED <<topics, history, revision, returned, nfaults, calls>>

\* a request body without the topic_id field
AbsentId == <<"<absent>">>

\* RevisionRequest: sheet_type and topic_id are required str fields
RevisionRequestValid(sheet_type, topic_id) == topic_id # AbsentId

\* POST /mark-revision with the body as the caller sent it: a body that
\* fails validation is answered 422 before the endpoint runs
HttpMarkRevisionRequest(sheet_type, topic_id) ==
    LET made == create_handler(sheet_type)
    IN  IF ~RevisionRequestValid(sheet_type, topic_id)
        THEN /\ last' = [NoCall EXCEPT
                   !.op = "mark", !.via = "http", !.sheet = sheet_type,
                   !.status = 422, !.outcome = "invalid", !.arg = topic_id]
             /\ UNCHANGED <<topics, history, revision, returned, nfaults, calls>>
        ELSE IF made.exc = "none"
        THEN /\ sheet_type \in Sheets
             /\ HttpMarkRevision(sheet_type, topic_id, "none")
        ELSE /\ last' = [NoCall EXCEPT
                   !.op = "mark", !.via = "http", !.sheet = sheet_type,
                   !.status = endpoint_status(made.exc),
                   !.outcome = "rejected", !.arg = topic_id]
             /\ UNCHANGED <<topics, history, revision, returned, nfaults, calls>>

\* what find_one({"sheet_name": sheet_type}) on the "revision" collection of
\* the database may return: None, a document without revision_ids, or a
\* document with the ids some other writer stored; no code of the program
\* writes that collection
NoDoc == [found |-> FALSE, has |-> FALSE, ids |-> <<>>]
RevisionDocs ==
    { NoDoc,
      [found |-> TRUE, has |-> FALSE, ids |-> <<>>],
      [found |-> TRUE, has |-> TRUE, ids |-> <<>>],
      [found |-> TRUE, has |-> TRUE, ids |-> << <<"9">> >>] }

\* the revision_ids get_revision_list answers with for the document it found
revision_ids(revision_doc) ==
    IF ~revision_doc.found \/ ~revision_doc.has THEN <<>> ELSE revision_doc.ids

\* GET /revision-list/{sheet_type}: the HTTPException(400) for an identifier
\* outside SHEET_TYPES is raised inside the try block, whose
\* "except Exception" answers 500; the list is read from the database
HttpGetRevisionList(sheet_type, revision_doc) ==
    LET exc == IF sheet_type \notin SHEET_TYPES THEN "HTTPException" ELSE "none"
    IN  /\ last' = [NoCall EXCEPT
              !.op = "revision_list", !.via = "http", !.sheet = sheet_type,
              !.status = endpoint_status(exc),
              !.outcome = IF exc = "none" THEN "list" ELSE "rejected",
              !.result = IF exc = "none" THEN revision_ids(revision_doc) ELSE <<>>]
        /\ UNCHANGED <<topics, history, revision, returned, nfaults, calls>>

NextRequests ==
    \/ \E sheet_type \in SHEET_TYPES \cup Outsiders, factory \in Factories :
          CreateHandler(sheet_type, factory)
    \/ \E sheet_type \in Sheets \cup Outsiders :
          \E topic_id \in UNION {MarkArgs(s) : s \in Sheets} \cup {AbsentId} :
              HttpMarkRevisionRequest(sheet_type, topic_id)
    \/ \E sheet_type \in SHEET_TYPES \cup Outsiders, revision_doc \in RevisionDocs :
          HttpGetRevisionList(sheet_type, revision_doc)

SpecRequests == Init /\ [][NextRequests]_vars

(***************************************************************************)
(* Choosing the sheet type: POST /filter-sheets, the resolution at the     *)
(* head of POST /select-topic, and the prompt of get_sheet_type.  Sheet     *)
(* type names and the caller's text are sequences of characters here, so    *)
(* that lower() and the substring test are computed.                       *)
(***************************************************************************)
UpperCase == <<"A", "B", "C", "D", "E", "F", "G", "H", "I", "J", "K", "L", "M", "N", "O", "P", "Q", "R", "S", "T", "U", "V", "W", "X", "Y", "Z">>
LowerCase == <<"a", "b", "c", "d", "e", "f", "g", "h", "i", "j", "k", "l", "m", "n", "o", "p", "q", "r", "s", "t", "u", "v", "w", "x", "y", "z">>

\* str.lower(), one character
Alphabet == Range(UpperCase) \cup Range(LowerCase) \cup Range(Digits) \cup {"_"}

LowerTable ==
    [c \in Alphabet |->
        IF c \in Range(UpperCase)
        THEN LowerCase[CHOOSE i \in 1..Len(UpperCase) : UpperCase[i] = c]
        ELSE c]

lower_char(c) == LowerTable[c]

\* str.lower()
lower(q) == [i \in 1..Len(q) |-> lower_char(q[i])]

\* a in b, for two str
IsSubstr(a, b) ==
    \E i \in 0..(Len(b) - Len(a)) : SubSeq(b, i + 1, i + Len(a)) = a

\* str.isdigit()
isdigit(q) == q # <<>> /\ \A i \in 1..Len(q) : \E d \in 1..10 : Digits[d] = q[i]

\* int() of a str of digits
RECURSIVE int(_)
int(q) ==
    IF q = <<>> THEN 0
    ELSE 10 * int(SubSeq(q, 1, Len(q) - 1))
         + (CHOOSE d \in 0..9 : Digits[d + 1] = q[Len(q)])

\* what a caller may type or send as filter text
FilterTexts ==
    { <<>>,
      <<"d", "b", "m", "s">>,
      <<"D", "B", "M", "S">>,
      <<"C", "o", "r", "e">>,
      <<"7", "5">>,
      <<"x", "y", "z">>,
      <<"r", "a", "n", "d", "o", "m">>,
      <<"R", "A", "N", "D", "O", "M">>,
      <<"3">>,
      <<"1", "4">> }

NoIndex == [given |-> FALSE, n |-> 0]
Index(n) == [given |-> TRUE, n |-> n]
Indexes ==
    {NoIndex} \cup {Index(n) : n \in {-1, 0, Len(SheetNames) - 1, Len(SheetNames)}}

Listed(q) == [exc |-> "none", list |-> q]
Failed(exc) == [exc |-> exc, list |-> <<>>]

\* a filter that keeps every sheet type whatever the text
filter_by_text_ignored(sheet_types, text) == sheet_types

\* the comprehension of filter_sheets, select_topic and get_sheet_type
filter_by_text(sheet_types, text) ==
    LET needle == lower(text)
    IN  SelectSeq(sheet_types, LAMBDA sheet :
            LET hay == lower(sheet) IN IsSubstr(needle, hay))

\* the comprehension of the older get_sheet_type: inp in sheet
filter_by_text_exact(sheet_types, text) ==
    SelectSeq(sheet_types, LAMBDA sheet : IsSubstr(text, sheet))

\* a /filter-sheets that shuffles the list when random_selection is set
filter_sheets_shuffling(filter_text, selected_index, random_selection) ==
    LET kept == IF filter_text # <<>>
                THEN filter_by_text(SheetNames, filter_text)
                ELSE SheetNames
    IN  IF random_selection
        THEN Listed([i \in 1..Len(kept) |-> kept[Len(kept) + 1 - i]])
        ELSE Listed(kept)

\* POST /filter-sheets: selected_index and random_selection are not read
filter_sheets(filter_text, selected_index, random_selection) ==
    IF filter_text # <<>>
    THEN Listed(filter_by_text(SheetNames, filter_text))
    ELSE Listed(SheetNames)

\* get_sheet_type of src/server/sheet_handler_factory.py for the typed inp
get_sheet_type(sheet_types, inp) ==
    IF lower(inp) = <<"r", "a", "n", "d", "o", "m">> THEN Listed(sheet_types)
    ELSE IF isdigit(inp)
         THEN IF 0 <= int(inp) /\ int(inp) < Len(sheet_types)
              THEN Listed(<<sheet_types[int(inp) + 1]>>)
              ELSE Listed(<<>>)
    ELSE IF inp # <<>> THEN Listed(filter_by_text(sheet_types, inp))
    ELSE Listed(<<>>)

\* get_sheet_type of src/sheet_handler_factory.py, reached through the import
\* of its module
get_sheet_type_cli(sheet_types, inp) ==
    IF ~(ImportedHandlers \subseteq DefinedHandlers) THEN Failed("ImportError")
    ELSE IF inp = <<"r", "a", "n", "d", "o", "m">> THEN Listed(sheet_types)
    ELSE IF isdigit(inp)
         THEN IF int(inp) < Len(sheet_types)
              THEN Listed(<<sheet_types[int(inp) + 1]>>)
              ELSE Failed("IndexError")
    ELSE Listed(filter_by_text_exact(sheet_types, inp))

FilterSheets(filter_text, selected_index, random_selection) ==
    LET r == filter_sheets(filter_text, selected_index, random_selection)
    IN  /\ last' = [NoCall EXCEPT
              !.op = "filter_sheets", !.via = "http",
              !.status = endpoint_status(r.exc),
              !.outcome = IF r.exc = "none" THEN "list" ELSE r.exc,
              !.text = filter_text, !.index = selected_index,
              !.flag = random_selection, !.result = r.list]
        /\ UNCHANGED <<topics, history, revision, returned, nfaults, calls>>

GetSheetType(inp, factory) ==
    LET r == IF factory = "server" THEN get_sheet_type(SheetNames, inp)
             ELSE get_sheet_type_cli(SheetNames, inp)
    IN  /\ last' = [NoCall EXCEPT
              !.op = "get_sheet_type", !.via = factory,
              !.outcome = IF r.exc = "none" THEN "list" ELSE r.exc,
              !.text = inp, !.result = r.list]
        /\ UNCHANGED <<topics, history, revision, returned, nfaults, calls>>

\* the head of select_topic: filter, then random.choice, the index, or the
\* first entry; its HTTPExceptions are raised inside the try block
ResolveSheetType(filter_text, selected_index, random_selection) ==
    LET filtered_sheets == IF filter_text # <<>>
                           THEN filter_by_text(SheetNames, filter_text)
                           ELSE SheetNames
        inRange == 0 <= selected_index.n /\ selected_index.n < Len(filtered_sheets)
        exc == IF filtered_sheets = <<>> THEN "HTTPException"
               ELSE IF ~random_selection /\ selected_index.given /\ ~inRange
               THEN "HTTPException"
               ELSE "none"
        picks == IF exc # "none" THEN {0}
                 ELSE IF random_selection THEN 1..Len(filtered_sheets)
                 ELSE IF selected_index.given THEN {selected_index.n + 1}
                 ELSE {1}
    IN  \E k \in picks :
          /\ last' = [NoCall EXCEPT
                !.op = "resolve", !.via = "http",
                !.status = endpoint_status(exc),
                !.detail = endpoint_detail(exc, ""),
                !.outcome = IF exc # "none" THEN "rejected" ELSE "sheet",
                !.text = filter_text, !.index = selected_index,
                !.flag = random_selection,
                !.result = IF k = 0 THEN <<>> ELSE <<filtered_sheets[k]>>]
          /\ UNCHANGED <<topics, history, revision, returned, nfaults, calls>>

NextFilter ==
    \/ \E filter_text \in FilterTexts, selected_index \in Indexes,
          random_selection \in BOOLEAN :
          FilterSheets(filter_text, selected_index, random_selection)
    \/ \E inp \in FilterTexts, factory \in Factories : GetSheetType(inp, factory)
    \/ \E filter_text \in FilterTexts, selected_index \in Indexes,
          random_selection \in BOOLEAN :
          ResolveSheetType(filter_text, selected_index, random_selection)

SpecFilter == Init /\ [][NextFilter]_vars

(***************************************************************************)
(* The title and the search link of a selected topic.  Field values, titles *)
(* and links are sequences of characters, so that quote_plus is computed.   *)
(***************************************************************************)
\* the site each handler of src/server/sheet_handlers.py is constructed with
site(sheet_type) ==
    CASE sheet_type \in {"sde_sheet", "microsoft_dsa", "phonepe_dsa", "dsa_common_patterns"} ->
            <<"n", "a", "u", "k", "r", "i", ".", "c", "o", "m">>
      [] sheet_type \in {"dbms_core_sheet", "os_core_sheet", "cn_core_sheet", "must_do_product_gfg"} ->
            <<"g", "e", "e", "k", "s", "f", "o", "r", "g", "e", "e", "k", "s", ".", "o", "r", "g">>
      [] sheet_type \in {"lc_sql_50", "lc_dsa_75", "oracle_dsa"} ->
            <<"l", "e", "e", "t", "c", "o", "d", "e", ".", "c", "o", "m">>
      [] sheet_type \in {"linux_commands"} ->
            <<"m", "a", "n", "p", "a", "g", "e", "s", ".", "u", "b", "u", "n", "t", "u", ".", "c", "o", "m">>
      [] sheet_type \in {"docker_commands"} ->
            <<"d", "o", "c", "s", ".", "d", "o", "c", "k", "e", "r", ".", "c", "o", "m">>
      [] sheet_type \in {"langgraph"} ->
            <<"l", "a", "n", "g", "c", "h", "a", "i", "n", ".", "c", "o", "m">>

\* dict.get(key, default) on a document whose missing keys hold AbsentId
dict_get(field, default) == IF field = AbsentId THEN default ELSE field

\* a get_title that reads the title field for every family
get_title_base(sheet_type, topic) ==
    dict_get(topic.title, <<"U", "n", "k", "n", "o", "w", "n", " ", "T", "i", "t", "l", "e">>)

\* get_title of the handler create_handler builds for the sheet type
get_title(sheet_type, topic) ==
    CASE sheet_type \in {"microsoft_dsa", "phonepe_dsa", "oracle_dsa"} ->
            dict_get(topic.name, <<"U", "n", "k", "n", "o", "w", "n", " ", "T", "i", "t", "l", "e">>)
      [] sheet_type = "linux_commands" ->
            dict_get(topic.id, <<"U", "n", "k", "n", "o", "w", "n", " ", "C", "o", "m", "m", "a", "n", "d">>)
      [] sheet_type = "dsa_common_patterns" ->
            dict_get(topic.id, <<"U", "n", "k", "n", "o", "w", "n", " ", "P", "a", "t", "t", "e", "r", "n">>)
      [] sheet_type = "docker_commands" ->
            dict_get(topic.id, <<"u", "n", "k", "n", "o", "w", "n">>) \o <<" ", "c", "o", "m", "m", "a", "n", "d">>
      [] sheet_type = "langgraph" ->
            dict_get(topic.id, <<"u", "n", "k", "n", "o", "w", "n">>) \o <<" ", "l", "a", "n", "g", "g", "r", "a", "p", "h">>
      [] OTHER -> dict_get(topic.title, <<"U", "n", "k", "n", "o", "w", "n", " ", "T", "i", "t", "l", "e">>)

\* the characters urllib.parse.quote never encodes
Unreserved == Range(UpperCase) \cup Range(LowerCase) \cup Range(Digits)
                  \cup {"_", ".", "-", "~"}

\* %XX of the ASCII characters a title holds besides the unreserved ones
PercentCodes ==
    [c \in {" ", "#", "&", "+", "/", ":", "=", "?"} |->
        CASE c = " " -> <<"%", "2", "0">>
          [] c = "#" -> <<"%", "2", "3">>
          [] c = "&" -> <<"%", "2", "6">>
          [] c = "+" -> <<"%", "2", "B">>
          [] c = "/" -> <<"%", "2", "F">>
          [] c = ":" -> <<"%", "3", "A">>
          [] c = "=" -> <<"%", "3", "D">>
          [] c = "?" -> <<"%", "3", "F">>]

\* urllib.parse.quote(string, safe)
RECURSIVE quote(_, _)
quote(string, safe) ==
    IF string = <<>> THEN <<>>
    ELSE (IF Head(string) \in Unreserved \cup safe
          THEN <<Head(string)>>
          ELSE PercentCodes[Head(string)]) \o quote(Tail(string), safe)

\* str.replace(old, new) for a one-character old
replace(string, old, new) ==
    [i \in 1..Len(string) |-> IF string[i] = old THEN new ELSE string[i]]

\* a quote_plus that leaves the spaces to quote
quote_plus_percent(string) == quote(string, {})

\* urllib.parse.quote_plus(string)
quote_plus(string) ==
    IF " " \notin Range(string) THEN quote(string, {})
    ELSE replace(quote(string, {" "}), " ", "+")

\* SheetHandler.create_link for a handler constructed with the site
create_link(handler_site, title) ==
    <<"h", "t", "t", "p", "s", ":", "/", "/", "w", "w", "w", ".", "g", "o", "o", "g", "l", "e", ".", "c", "o", "m", "/", "s", "e", "a", "r", "c", "h", "?", "q", "=">>
        \o quote_plus(title) \o <<"+", "s", "i", "t", "e", "%", "3", "A">> \o handler_site

\* field values of the documents the title is taken from
Titles == {AbsentId, <<"T", "w", "o", " ", "S", "u", "m">>, <<"Q", "&", "A", ":", " ", "a", "+", "b">>}
Names == {AbsentId, <<"L", "R", "U", " ", "C", "a", "c", "h", "e", "/", "2">>}
Ids == {AbsentId, <<"g", "r", "e", "p">>, <<"d", "o", "c", "k", "e", "r", " ", "r", "u", "n">>}
Documents == [title : Titles, name : Names, id : Ids]

\* the title and link steps of select_topic and process
SelectTitle(sheet_type, topic) ==
    LET title == get_title(sheet_type, topic)
        link == create_link(site(sheet_type), title)
    IN  /\ last' = [NoCall EXCEPT
              !.op = "title", !.sheet = sheet_type, !.outcome = "topic",
              !.doc = topic, !.title = title, !.link = link]
        /\ UNCHANGED <<topics, history, revision, returned, nfaults, calls>>

NextTitle ==
    \E sheet_type \in SHEET_TYPES, topic \in Documents :
        SelectTitle(sheet_type, topic)

SpecTitle == Init /\ [][NextTitle]_vars

(***************************************************************************)
(* The earlier scripts src/v2.py and src/v1.py, which live beside           *)
(* sheet_handler.py and open the same history/<name>.json files.  Their     *)
(* topics come from data/<name>.json; on a repeat they call themselves.     *)
(* One action is one invocation of process (v2) or main (v1).               *)
(***************************************************************************)
\* most nested invocations followed before the model stops following them
MaxDepth == 3

Versions == {"v2", "v1"}

\* data/<name>.json after flatten
DataFiles ==
    Store(<< [id |-> StrId(<<"1", "2">>), title |-> "LRU Cache"],
             [id |-> StrId(<<"1", "2", "3">>), title |-> "Clone Graph"] >>,
          << [id |-> StrId(<<"5">>), title |-> "Normal Forms"] >>)

\* the topic ids the clients of /mark-revision send in this specification
DrawMarkArgs == {<<"1", "2", "3">>, <<"5">>}

\* x in set(history): history is the list, or the str, under "solved_ids"
in_solved_set(id, file) ==
    IF file.kind = "list" THEN id \in Range(file.val)
    ELSE id.t = "str" /\ Len(id.s) = 1 /\ id.s[1] \in Range(file.val)

\* remove_solved of v2.py and v1.py: item["id"] not in set(solved_ids)
remove_solved_legacy(sheet_data, file) ==
    SelectSeq(sheet_data, LAMBDA item : ~in_solved_set(item.id, file))

\* id in history: membership in a list, the substring test on a str
id_in_history(id, file) ==
    IF file.kind = "list" THEN id \in Range(file.val)
    ELSE id.t = "str" /\ IsSubstr(id.s, file.val)

LegacyProcess(version, s, ans) ==
    LET nested == last.pc = "retry"
        depth == IF nested THEN last.depth + 1 ELSE 1
        draws == IF nested THEN last.draws ELSE 0
        file0 == history[s]
        filtered == IF file0.kind = "absent" THEN <<>>
                    ELSE remove_solved_legacy(DataFiles[s], file0)
    IN  /\ nested => last.via = version /\ last.sheet = s
        /\ depth <= MaxDepth
        /\ version = "v1" => ans = "n"
        /\ \E k \in 0..Len(filtered) :
             LET id == filtered[k].id
                 typeError == file0.kind = "str" /\ id.t # "str"
                 repeat == ~typeError /\ id_in_history(id, file0)
                                      /\ ~should_allow_repeats
                 why == IF file0.kind = "absent" THEN "FileNotFoundError"
                        ELSE IF k = 0 THEN "IndexError"
                        ELSE IF typeError THEN "TypeError"
                        ELSE IF repeat THEN "repeat"
                        ELSE IF file0.kind = "str" THEN "AttributeError"
                        ELSE "topic"
                 marks == why = "topic" /\ ans = "y"
                 hist2 == Append(file0.val, id)
             IN  /\ k = 0 <=> filtered = <<>>
                 /\ why # "topic" => ans = "n"
                 /\ why = "topic" => Len(file0.val) < MaxHist
                 /\ marks => RevRoom(s)
                 /\ history' = IF why # "topic" THEN history
                               ELSE WriteFile(history, s,
                                      ListFile(IF marks THEN file0.val ELSE hist2))
                 /\ revision' = IF marks
                                THEN WriteFile(revision, s,
                                               Append(revision[s], str(id)))
                                ELSE revision
                 /\ last' = [NoCall EXCEPT
                       !.op = "process", !.via = version, !.sheet = s,
                       !.outcome = why,
                       !.pc = IF why = "repeat" THEN "retry" ELSE "done",
                       !.depth = depth,
                       !.draws = IF file0.kind = "absent" THEN draws ELSE draws + 1,
                       !.rid = IF why = "topic" THEN str(id) ELSE <<>>,
                       !.ans = IF why = "topic" THEN ans ELSE "",
                       !.hist0 = file0]
                 /\ UNCHANGED <<topics, returned, nfaults, calls>>

\* the callers of this specification run one after the other: a nested
\* invocation is entered before anything else happens
NextDraw ==
    \/ \E s \in Sheets, topic_id \in DrawMarkArgs :
          last.pc # "retry" /\ HttpMarkRevision(s, topic_id, "none")
    \/ \E s \in Sheets, ans \in {"y", "n"} :
          last.pc # "retry" /\ CliProcess(s, "none", ans)
    \/ \E version \in Versions, s \in Sheets, ans \in {"y", "n"} :
          LegacyProcess(version, s, ans)

SpecDraw == Init /\ [][NextDraw]_vars

(***************************************************************************)
(* The sheet types with auxiliary JSON documents (microsoft_dsa,            *)
(* phonepe_dsa, oracle_dsa).  The handler is constructed with jsons_path    *)
(* and a difficulty; questions_from_jsons reads the documents of that       *)
(* directory, and is reached only through the handler's flatten.  The       *)
(* selection itself is the code of every other sheet type: it reads the     *)
(* MongoDB collection named after the sheet type.                           *)
(***************************************************************************)
AuxSheets == {"microsoft_dsa"}

\* jsons_path of the handler
jsons_path(sheet_type) == "microsoft_question_jsons"

\* NaukriDifficulties.MEDIUM.value, the difficulty the three handlers pass
difficulty(sheet_type) == "Moderate"

Question(id, d) == [id |-> StrId(id), title |-> "", difficulty |-> d]

\* what get_json returns for a file: None, a document without
\* data.problem_list, or a document with it
Unreadable == [ok |-> FALSE, has |-> FALSE, problem_list |-> <<>>]
Shapeless == [ok |-> TRUE, has |-> FALSE, problem_list |-> <<>>]
Page(questions) == [ok |-> TRUE, has |-> TRUE, problem_list |-> questions]

Page1 == Page(<<Question(<<"3">>, "Moderate"), Question(<<"4">>, "Easy")>>)
Page2 == Page(<<Question(<<"5">>, "Moderate")>>)

\* the directories the model starts from, as os.listdir orders them
AuxDirs ==
    { <<>>, <<Page1>>, <<Page1, Page2>>, <<Page2, Page1>>,
      <<Page1, Shapeless, Page2>>, <<Unreadable, Page1>>, <<Page2, Unreadable>> }

\* all questions of the readable documents, whatever their difficulty
RECURSIVE every_question(_)
every_question(data_array) ==
    IF data_array = <<>> THEN <<>>
    ELSE Head(data_array).problem_list \o every_question(Tail(data_array))

\* the loop of questions_from_jsons over a document that is skipped when it
\* is invalid
RECURSIVE questions_skipping(_, _)
questions_skipping(data_array, level) ==
    IF data_array = <<>> THEN <<>>
    ELSE LET data == Head(data_array)
             rest == questions_skipping(Tail(data_array), level)
         IN  IF ~data.ok \/ ~data.has THEN rest
             ELSE SelectSeq(data.problem_list,
                            LAMBDA item : item.difficulty = level) \o rest

\* questions_from_jsons: the loop returns [] at the first invalid document
questions_from_jsons(data_array, level) ==
    IF \E i \in 1..Len(data_array) : ~data_array[i].ok \/ ~data_array[i].has
    THEN <<>>
    ELSE questions_skipping(data_array, level)

\* the collections a database may hold for the sheet type: what flatten gave
\* when it was loaded, every question of the documents, or nothing
AuxCollections(data_array) ==
    { questions_from_jsons(data_array, "Moderate"),
      every_question(data_array),
      <<>> }

InitAux ==
    /\ \E data_array \in AuxDirs :
        \E collection \in AuxCollections(data_array) :
          topics = [x \in AuxSheets \cup {jsons_path(s) : s \in AuxSheets} |->
                       IF x \in AuxSheets THEN collection ELSE data_array]
    /\ history = [s \in AuxSheets |-> AbsentFile]
    /\ revision = [s \in AuxSheets |-> <<>>]
    /\ returned = [s \in AuxSheets |-> {}]
    /\ nfaults = 0
    /\ last = NoCall
    /\ calls = [p \in Procs |-> Idle]

\* flatten of MicrosoftDSAHandler, PhonePeDSAHandler and OracleDSAHandler
FlattenAux(s) ==
    /\ last' = [NoCall EXCEPT
          !.op = "flatten", !.sheet = s, !.outcome = "list",
          !.result = questions_from_jsons(topics[jsons_path(s)], difficulty(s))]
    /\ UNCHANGED <<topics, history, revision, returned, nfaults, calls>>

NextAux ==
    \/ \E s \in AuxSheets : HttpSelectTopic(s, "none")
    \/ \E s \in AuxSheets, ans \in {"y", "n"} : CliProcess(s, "none", ans)
    \/ \E s \in AuxSheets : FlattenAux(s)

SpecAux == InitAux /\ [][NextAux]_vars

(***************************************************************************)
(* flatten: the adapters from a sheet's wrapper document to its list of    *)
(* topics.  A wrapper is any JSON value; k is its Python type, and its     *)
(* content is the items of a list, the characters of a str, or the         *)
(* (key, value) pairs of a dict in insertion order.                        *)
(***************************************************************************)
JNull == [k |-> "null", chars |-> <<>>, items |-> <<>>, pairs |-> <<>>]
JInt == [k |-> "int", chars |-> <<>>, items |-> <<>>, pairs |-> <<>>]
JStr(chars) == [k |-> "str", chars |-> chars, items |-> <<>>, pairs |-> <<>>]
JList(items) == [k |-> "list", chars |-> <<>>, items |-> items, pairs |-> <<>>]
JDict(pairs) == [k |-> "dict", chars |-> <<>>, items |-> <<>>, pairs |-> pairs]

K_sheetData == <<"s", "h", "e", "e", "t", "D", "a", "t", "a">>
K_data == <<"d", "a", "t", "a">>
K_topics == <<"t", "o", "p", "i", "c", "s">>
K_questions == <<"q", "u", "e", "s", "t", "i", "o", "n", "s">>
K_id == <<"i", "d">>

\* the sheet types whose handler concatenates a sub-list of every entry
NestedSheets == {"sde_sheet", "dbms_core_sheet", "os_core_sheet",
                 "cn_core_sheet", "lc_sql_50", "lc_dsa_75"}

\* the sheet types whose handler returns the outer array as it is
FlatSheets == {"must_do_product_gfg", "linux_commands", "docker_commands",
               "langgraph", "dsa_common_patterns"}

\* the key of the outer array in the wrapper
outer_key(sheet_type) ==
    IF sheet_type \in {"linux_commands", "docker_commands", "langgraph",
                       "dsa_common_patterns"}
    THEN K_data ELSE K_sheetData

\* the key of the sub-list in an entry of the outer array
sub_key(sheet_type) ==
    CASE sheet_type = "sde_sheet" -> K_topics
      [] sheet_type \in {"dbms_core_sheet", "os_core_sheet", "cn_core_sheet"} -> K_data
      [] sheet_type \in {"lc_sql_50", "lc_dsa_75"} -> K_questions

\* key in d, for a dict d
has_key(d, key) == \E i \in 1..Len(d.pairs) : d.pairs[i][1] = key

\* d[key], for a dict d holding the key
subscript(d, key) ==
    d.pairs[CHOOSE i \in 1..Len(d.pairs) : d.pairs[i][1] = key][2]

\* `for x in value`: a list gives its items, a dict its keys, a str its
\* characters; a number and None are not iterable
iterate(value) ==
    CASE value.k = "list" -> Listed(value.items)
      [] value.k = "dict" -> 
           Listed([i \in 1..Len(value.pairs) |-> JStr(value.pairs[i][1])])
      [] value.k = "str" -> 
           Listed([i \in 1..Len(value.chars) |-> JStr(<<value.chars[i]>>)])
      [] OTHER -> Failed("TypeError")

\* sublist.get(key, []): only a dict has the method
sublist_get(sublist, key) ==
    IF sublist.k # "dict" THEN Failed("AttributeError")
    ELSE IF has_key(sublist, key) THEN iterate(subscript(sublist, key))
    ELSE Listed(<<>>)

\* sublist[key]: indexing anything but a dict with a str is a TypeError, a
\* dict without the key a KeyError
sublist_index(sublist, key) ==
    IF sublist.k # "dict" THEN Failed("TypeError")
    ELSE IF has_key(sublist, key) THEN iterate(subscript(sublist, key))
    ELSE Failed("KeyError")

\* [item for sublist in outer for item in <sub-list of sublist>], left to
\* right: the first exception ends the comprehension
RECURSIVE comprehension(_, _, _)
comprehension(outer, key, guarded) ==
    IF outer = <<>> THEN Listed(<<>>)
    ELSE LET inner == IF guarded THEN sublist_get(Head(outer), key)
                      ELSE sublist_index(Head(outer), key)
             rest == comprehension(Tail(outer), key, guarded)
         IN  IF inner.exc # "none" THEN inner
             ELSE IF rest.exc # "none" THEN rest
             ELSE Listed(inner.list \o rest.list)

\* a flatten that keeps the sub-list of the first entry only
flatten_nested_first(data, outer, sub) ==
    IF data.k # "dict" \/ ~has_key(data, outer) THEN Listed(<<>>)
    ELSE LET entries == iterate(subscript(data, outer))
             r == IF entries.exc # "none" THEN entries
                  ELSE IF entries.list = <<>> THEN Listed(<<>>)
                  ELSE comprehension(<<Head(entries.list)>>, sub, TRUE)
         IN  IF r.exc \in {"TypeError", "KeyError"} THEN Listed(<<>>) ELSE r

\* flatten of SDESheetHandler, CoreSheetHandler, LeetCodeSQLHandler and
\* LeetCodeDSA75Handler of the server: the except clause names TypeError and
\* KeyError, any other exception leaves the method
flatten_nested(data, outer, sub) ==
    IF data.k # "dict" \/ ~has_key(data, outer) THEN Listed(<<>>)
    ELSE LET entries == iterate(subscript(data, outer))
             r == IF entries.exc # "none" THEN entries
                  ELSE comprehension(entries.list, sub, TRUE)
         IN  IF r.exc \in {"TypeError", "KeyError"} THEN Listed(<<>>) ELSE r

\* flatten of GFGMustDoProductHandler, LinuxCommandsHandler,
\* DockerCommandsHandler, LanggraphHandler and DSACommonPatterns
flatten_flat(data, outer) ==
    IF data.k # "dict" \/ ~has_key(data, outer) THEN Listed(<<>>)
    ELSE IF subscript(data, outer).k = "list" THEN Listed(subscript(data, outer).items)
    ELSE Listed(<<>>)

\* flatten of the handlers of src/sheet_handlers.py: no test, no try
flatten_unguarded(data, outer, sub) ==
    IF data.k # "dict" THEN Failed("TypeError")
    ELSE IF ~has_key(data, outer) THEN Failed("KeyError")
    ELSE LET entries == iterate(subscript(data, outer))
         IN  IF entries.exc # "none" THEN entries
             ELSE comprehension(entries.list, sub, FALSE)

flatten(sheet_type, data) ==
    IF sheet_type \in NestedSheets
    THEN flatten_nested(data, outer_key(sheet_type), sub_key(sheet_type))
    ELSE flatten_flat(data, outer_key(sheet_type))

\* the wrappers the adapters are applied to
Topic(id) == JDict(<< <<K_id, JStr(<<id>>)>> >>)

Entry(sub, questions) == JDict(<< <<sub, JList(questions)>> >>)

\* entries of the outer array: objects holding the sub-list, objects without
\* it or with something else under its key, and values that are no objects
Entries(sub) ==
    { Entry(sub, <<Topic("1"), Topic("2")>>), Entry(sub, <<Topic("3")>>),
      Entry(sub, <<>>), JDict(<<>>),
      JDict(<< <<sub, JInt>> >>), JDict(<< <<sub, JStr(<<"a", "b">>)>> >>),
      JInt, JNull, JStr(<<"x">>), JList(<<Topic("1")>>) }

OuterValues(sub) ==
    { JInt, JNull, JStr(<<"x", "y">>), JDict(<<>>),
      JDict(<< <<sub, JList(<<Topic("1")>>)>> >>), JList(<<>>) }
    \cup { JList(<<e>>) : e \in Entries(sub) }
    \cup { JList(<<e1, e2>>) : e1 \in Entries(sub), e2 \in Entries(sub) }

Wrappers(outer, sub) ==
    { JNull, JInt, JStr(<<"x">>), JList(<<Topic("1")>>), JDict(<<>>),
      JDict(<< <<K_id, JList(<<Topic("1")>>)>> >>) }
    \cup { JDict(<< <<outer, value>> >>) : value \in OuterValues(sub) }

\* the handler and the wrapper of a call of flatten
FlattenInputs ==
    { [NoCall EXCEPT !.op = "input", !.via = "server", !.sheet = sheet_type,
                     !.data = data] :
        sheet_type \in NestedSheets \cup FlatSheets,
        data \in UNION { Wrappers(outer, sub) :
                           outer \in {K_sheetData, K_data},
                           sub \in {K_topics, K_data, K_questions, K_id} } }
    \cup
    { [NoCall EXCEPT !.op = "input", !.via = "cli", !.sheet = sheet_type,
                     !.data = data] :
        sheet_type \in NestedSheets,
        data \in UNION { Wrappers(K_sheetData, sub) :
                           sub \in {K_topics, K_data, K_questions} } }

InitFlatten ==
    /\ topics \in TopicStores
    /\ history = [s \in Sheets |-> AbsentFile]
    /\ revision = [s \in Sheets |-> <<>>]
    /\ returned = [s \in Sheets |-> {}]
    /\ nfaults = 0
    /\ last \in FlattenInputs
    /\ calls = [p \in Procs |-> Idle]

Flatten ==
    /\ last.op = "input" /\ last.via = "server"
    /\ last' = [last EXCEPT !.op = "flatten",
                            !.flat = flatten(last.sheet, last.data)]
    /\ UNCHANGED <<topics, history, revision, returned, nfaults, calls>>

FlattenCli ==
    /\ last.op = "input" /\ last.via = "cli"
    /\ last' = [last EXCEPT !.op = "flatten",
                            !.flat = flatten_unguarded(last.data,
                                        outer_key(last.sheet),
                                        sub_key(last.sheet))]
    /\ UNCHANGED <<topics, history, revision, returned, nfaults, calls>>

NextFlatten == Flatten \/ FlattenCli

SpecFlatten == InitFlatten /\ [][NextFlatten]_vars

(***************************************************************************)
(* The Telegram bot: one user talking to the bot in the chats of Procs.    *)
(* The ConversationHandler keeps one conversation for every (chat, user),  *)
(* context.user_data is one dict for the user in all the chats.  In this    *)
(* specification calls holds both: calls.conversations[c] is the state of   *)
(* the conversation of chat c with what it has selected and sent, and       *)
(* calls.user_data the user's dict.                                        *)
(***************************************************************************)
END == "END"
SELECTING_SHEET == "SELECTING_SHEET"
CONFIRM_REVISION == "CONFIRM_REVISION"

\* user_data without the key current_topic
NoTopic == [set |-> FALSE, sheet_type |-> "", topic_id |-> ""]
CurrentTopic(sheet_type, topic_id) ==
    [set |-> TRUE, sheet_type |-> sheet_type, topic_id |-> topic_id]

\* the answers of POST /select-topic the bot may be given: the topic data of
\* a 200 response; NoTopic stands for a RequestException
SelectAnswers ==
    { CurrentTopic("sde_sheet", "1"), CurrentTopic("sde_sheet", "2"),
      CurrentTopic("lc_sql_50", "1") }

\* what the user types while a sheet is being selected
BotInputs ==
    { <<"r", "a", "n", "d", "o", "m">>, <<"3">>, <<"1", "4">>,
      <<"d", "b", "m", "s">> }

\* the data of the two buttons
Choices == {"mark_revision_yes", "mark_revision_no"}

\* context.user_data.clear()
NoUserData == [chat_id |-> 0, sheet_types |-> <<>>, current_topic |-> NoTopic]

\* a conversation that has ended or not begun; selected is the answer of the
\* last successful select-topic request of the conversation, marks the number
\* of mark-revision requests sent since
NoConversation == [state |-> END, selected |-> NoTopic, marks |-> 0]

user_data == calls.user_data
conversations == calls.conversations

InitBot ==
    /\ topics \in TopicStores
    /\ history = [s \in Sheets |-> AbsentFile]
    /\ revision = [s \in Sheets |-> <<>>]
    /\ returned = [s \in Sheets |-> {}]
    /\ nfaults = 0
    /\ last = NoCall
    /\ calls = [user_data |-> NoUserData,
                conversations |-> [c \in Procs |-> NoConversation]]

\* a call of the Telegram API raises: the handler is left, the state of the
\* conversation stays what it was
TelegramFaults(points) ==
    IF nfaults < MaxFaults THEN {"none"} \cup points ELSE {"none"}

\* the SheetSelectionRequest handle_sheet_selection builds for the text, or
\* none for a number outside the list
selection_request(user_input, sheet_types) ==
    IF lower(user_input) = <<"r", "a", "n", "d", "o", "m">>
    THEN [made |-> TRUE, filter_text |-> <<>>, selected_index |-> NoIndex,
          random_selection |-> TRUE]
    ELSE IF isdigit(user_input)
    THEN IF 0 <= int(user_input) /\ int(user_input) < Len(sheet_types)
         THEN [made |-> TRUE, filter_text |-> <<>>,
               selected_index |-> Index(int(user_input)),
               random_selection |-> FALSE]
         ELSE [made |-> FALSE, filter_text |-> <<>>, selected_index |-> NoIndex,
               random_selection |-> FALSE]
    ELSE [made |-> TRUE, filter_text |-> user_input, selected_index |-> NoIndex,
          random_selection |-> FALSE]

BotCall(name, c) ==
    [NoCall EXCEPT !.op = name, !.via = "bot", !.chat = c,
                   !.state = conversations[c].state]

\* /start, the entry point: taken by a chat without a running conversation
Start(c, sheet_types) ==
    /\ conversations[c].state = END
    /\ calls' = [user_data |-> [user_data EXCEPT !.chat_id = c,
                     !.sheet_types =
                        IF sheet_types # <<>> THEN sheet_types ELSE @],
                 conversations |-> [conversations EXCEPT ![c] =
                     [state |-> IF sheet_types # <<>> THEN SELECTING_SHEET ELSE END,
                      selected |-> NoTopic, marks |-> 0]]]
    /\ last' = BotCall("start", c)
    /\ UNCHANGED <<topics, history, revision, returned, nfaults>>

\* a text message while the conversation of the chat selects a sheet
HandleSheetSelection(c, user_input, answer, fault) ==
    /\ conversations[c].state = SELECTING_SHEET
    /\ LET sheet_types == user_data.sheet_types
           request == selection_request(user_input, sheet_types)
           asked == sheet_types # <<>> /\ request.made /\ fault # "processing"
           got == asked /\ answer.set
       IN  /\ calls' =
                [user_data |-> [user_data EXCEPT !.chat_id = c,
                     !.current_topic = IF got THEN answer ELSE @],
                 conversations |-> [conversations EXCEPT ![c] =
                     [state |-> IF sheet_types = <<>> THEN END
                                ELSE IF got /\ fault = "none" THEN CONFIRM_REVISION
                                ELSE SELECTING_SHEET,
                      selected |-> IF got THEN answer ELSE @.selected,
                      marks |-> IF got THEN 0 ELSE @.marks]]]
           /\ last' = [BotCall("select", c) EXCEPT
                 !.text = user_input,
                 !.outcome = IF ~asked THEN "none"
                             ELSE IF answer.set THEN "topic" ELSE "failed",
                 !.fault = fault]
    /\ nfaults' = IF fault = "none" THEN nfaults ELSE nfaults + 1
    /\ UNCHANGED <<topics, history, revision, returned>>

\* a button pressed while the conversation of the chat awaits the answer
HandleRevisionCallback(c, user_choice, fault) ==
    /\ conversations[c].state = CONFIRM_REVISION
    /\ LET current_topic == user_data.current_topic
           lost == ~current_topic.set
           sent == fault # "answer" /\ ~lost /\ user_choice = "mark_revision_yes"
           deleted == fault \in {"none", "send"} /\ ~lost
           ended == (fault = "none") \/ (fault # "answer" /\ lost)
       IN  /\ calls' =
                [user_data |-> [user_data EXCEPT
                     !.current_topic = IF deleted THEN NoTopic ELSE @],
                 conversations |-> [conversations EXCEPT ![c] =
                     [state |-> IF ended THEN END ELSE CONFIRM_REVISION,
                      selected |-> @.selected,
                      marks |-> IF sent THEN @.marks + 1 ELSE @.marks]]]
           /\ last' = [BotCall("callback", c) EXCEPT
                 !.ans = user_choice, !.sent = sent,
                 !.topic = IF sent THEN current_topic ELSE NoTopic,
                 !.selected = conversations[c].selected,
                 !.fault = fault]
    /\ nfaults' = IF fault = "none" THEN nfaults ELSE nfaults + 1
    /\ UNCHANGED <<topics, history, revision, returned>>

\* /cancel, the fallback of every state
Cancel(c) ==
    /\ conversations[c].state # END
    /\ calls' = [user_data |-> NoUserData,
                 conversations |-> [conversations EXCEPT ![c] =
                     [@ EXCEPT !.state = END]]]
    /\ last' = BotCall("cancel", c)
    /\ UNCHANGED <<topics, history, revision, returned, nfaults>>

NextBot ==
    \/ \E c \in Procs, sheet_types \in {<<>>, SheetNames} : Start(c, sheet_types)
    \/ \E c \in Procs, user_input \in BotInputs,
          answer \in SelectAnswers \cup {NoTopic} :
          \E fault \in TelegramFaults({"processing", "reply"}) :
             HandleSheetSelection(c, user_input, answer, fault)
    \/ \E c \in Procs, user_choice \in Choices :
          \E fault \in TelegramFaults({"answer", "edit", "send"}) :
             HandleRevisionCallback(c, user_choice, fault)
    \/ \E c \in Procs : Cancel(c)

SpecBot == InitBot /\ [][NextBot]_vars

(***************************************************************************)
(* Properties.                                                             *)
(***************************************************************************)
\* the ids of the persisted history, as a reader of an intact file sees them
HistoryList(file) == read_history(file, TRUE)
HistoryIds(file) == Range(HistoryList(file))

\* the call observed last selected a topic and handed it to its caller
Selected(c) == c.op \in {"select", "process"} /\ c.outcome = "topic"

\* the item is kept by a filter on the string form of its id
KeptBy(item, solved_ids) ==
    \A i \in 1..Len(solved_ids) : solved_ids[i] # str(get_id(item, NoId))

\* C2: remove_solved(T, H) is T restricted, in order, to the topics whose id
\* converted to a string is not in H; a topic with numeric id 7 is excluded
\* when H contains "7"; nothing outside T is returned
C2_RemoveSolvedExact ==
    last.op = "remove_solved" =>
        LET T == topics[last.sheet]
            H == last.solved
            R == last.filtered
        IN  /\ R = SelectSeq(T, LAMBDA item : KeptBy(item, H))
            /\ Range(R) \subseteq Range(T)
            /\ <<"7">> \in Range(H) => \A i \in 1..Len(R) : R[i].id # IntId(7)

\* C2 witness: a numeric id 7 is filtered out by the string "7", another topic stays
C2_Witness ==
    /\ last.op = "remove_solved"
    /\ <<"7">> \in Range(last.solved)
    /\ \E i \in 1..Len(topics[last.sheet]) : topics[last.sheet][i].id = IntId(7)
    /\ Len(last.filtered) = 1
    /\ Len(topics[last.sheet]) = 2

\* the call observed last ran mark_revision on a non-empty id: POST
\* /mark-revision, or process answered "y"
Marked(c) ==
    \/ c.op = "mark" /\ c.arg # <<>>
    \/ c.op = "process" /\ c.outcome = "topic" /\ c.ans = "y"

\* the id that call was to move to the revision record
MarkedId(c) == IF c.op = "mark" THEN c.arg ELSE c.rid

\* number of lines of a revision file equal to x
Occurrences(q, x) == Cardinality({i \in 1..Len(q) : q[i] = x})

\* C1: a select-topic call never returns a topic whose id is in the history
\* as it was when the call started
C1_NeverReturnsSolved ==
    Selected(last) => last.rid \notin HistoryIds(last.hist0)

\* C3: when a select-topic call returns a topic, the topic's id is in the
\* persisted history once the selection has completed
C3_ReturnedIdPersisted ==
    Selected(last) =>
        last.rid \in HistoryIds(IF last.op = "process" /\ last.ans = "y"
                                THEN last.histSel
                                ELSE history[last.sheet])

\* C4: the persisted history of a sheet type holds no id more than once
C4_NoDuplicateIds ==
    \A s \in Sheets :
        LET h == HistoryList(history[s])
        IN  \A i, j \in 1..Len(h) : i # j => h[i] # h[j]

\* C5: after mark-revision with a non-empty id, the id is in the revision
\* record and not in the history record
C5_MarkedMoves ==
    Marked(last) =>
        /\ MarkedId(last) \in Range(revision[last.sheet])
        /\ MarkedId(last) \notin HistoryIds(history[last.sheet])

\* C6: mark-revision removes only the named id from the history: every other
\* id stays, and the persisted history is still a list of ids
C6_MarkRemovesOnlyNamed ==
    [][ Marked(last') =>
          LET s == last'.sheet
              before == IF last'.op = "mark" THEN history[s] ELSE last'.histSel
          IN  /\ \A x \in HistoryIds(before) \ {MarkedId(last')} :
                    x \in HistoryIds(history'[s])
              /\ history'[s].kind = "list" ]_vars

\* C7: mark-revision(id) twice in a row leaves the state of the first call:
\* id once in the revision record, absent from the history record
C7_MarkIdempotent ==
    [][ ( /\ last.op = "mark" /\ last'.op = "mark"
          /\ last'.sheet = last.sheet /\ last'.arg = last.arg
          /\ last.arg # <<>> ) =>
          LET s == last.sheet
          IN  /\ history'[s] = history[s]
              /\ Range(revision'[s]) = Range(revision[s])
              /\ Occurrences(revision'[s], last.arg) = 1
              /\ last.arg \notin HistoryIds(history'[s]) ]_vars

\* C8: select-topic returning r followed at once by mark-revision(r) leaves
\* the history as it was before the selection and adds r to the revision record
C8_SelectMarkRoundTrip ==
    [][ /\ ( /\ Selected(last) /\ ~Marked(last)
             /\ last'.op = "mark" /\ last'.sheet = last.sheet
             /\ last'.arg = last.rid ) =>
               LET s == last.sheet
               IN  /\ HistoryList(history'[s]) = HistoryList(last.hist0)
                   /\ Range(revision'[s]) = Range(revision[s]) \cup {last.rid}
        /\ ( Selected(last') /\ Marked(last') ) =>
               LET s == last'.sheet
               IN  /\ HistoryList(history'[s]) = HistoryList(history[s])
                   /\ Range(revision'[s]) = Range(revision[s]) \cup {last'.rid}
      ]_vars

\* C9: with no mark-revision in between, no topic is returned twice, a call
\* made when every topic has been returned reports that none remains, and
\* random.choice is never applied to an empty list
C9_Exhaustion ==
    /\ ~last.rcEmpty
    /\ Selected(last) => ~last.again
    /\ (last.op \in {"select", "process"} /\ last.allSeen) =>
          last.outcome \in {"no_unsolved", "no_data"}

\* two calls overlapped: one started while the other was in flight
Concurrent(p, q) == q \in calls[p].peers \/ p \in calls[q].peers

\* C10: two concurrent select-topic calls for a sheet type that had exactly
\* one unsolved topic when each started do not both return that topic
C10_LastTopicReturnedOnce ==
    \A p, q \in Procs :
        ( /\ p # q
          /\ Concurrent(p, q)
          /\ calls[p].sheet = calls[q].sheet
          /\ calls[p].one /\ calls[q].one
          /\ calls[p].outcome = "topic" /\ calls[q].outcome = "topic" )
        => calls[p].tix # calls[q].tix

\* the unsolved topics as the call of process p read them
SeenUnsolved(p) == remove_solved(topics[calls[p].sheet], calls[p].hist)

\* C11: NumProcs concurrent select-topic calls for a sheet type with exactly
\* NumProcs unsolved topics return pairwise distinct topics, and afterwards
\* the history holds every returned id, none of them twice
C11_ConcurrentDistinct ==
    \A s \in Sheets :
        ( /\ \A p \in Procs :
                /\ calls[p].pc = "done" /\ calls[p].sheet = s
                /\ Len(SeenUnsolved(p)) = NumProcs
          /\ \A p, q \in Procs : p # q => Concurrent(p, q) )
        => /\ \A p \in Procs : calls[p].outcome = "topic"
           /\ \A p, q \in Procs : p # q => calls[p].tix # calls[q].tix
           /\ \A p \in Procs : calls[p].rid \in HistoryIds(history[s])
           /\ LET h == HistoryList(history[s])
              IN  \A i, j \in 1..Len(h) : i # j => h[i] # h[j]

\* C12: mark-revision(a), called when a is in the history and later
\* selections have added other ids after it, moves a to the revision record
\* and removes a from the history; the most recently added id stays in the
\* history and is not added to the revision record
C12_MarkActsOnPassedId ==
    [][ LET s == last'.sheet
            a == last'.arg
            h == HistoryList(history[s])
            newest == h[Len(h)]
        IN  ( /\ last'.op = "mark" /\ a # <<>>
              /\ Len(h) >= 2 /\ newest # a
              /\ \E i \in 1..(Len(h) - 1) : h[i] = a ) =>
              /\ a \in Range(revision'[s])
              /\ a \notin HistoryIds(history'[s])
              /\ newest \in HistoryIds(history'[s])
              /\ newest \in Range(revision'[s]) => newest \in Range(revision[s])
      ]_vars

\* C13: a select-topic or mark-revision call on one sheet type leaves the
\* history and the revision record of every other sheet type unchanged
C13_OtherSheetsUnchanged ==
    [][ last'.op \in {"select", "process", "mark"} =>
          \A x \in Sheets \ {last'.sheet} :
              /\ history'[x] = history[x]
              /\ revision'[x] = revision[x] ]_vars

\* a mark-revision on sde_sheet has written its files while dbms_core_sheet
\* has a history of its own
C13_Witness ==
    /\ last.op = "mark" /\ last.outcome = "marked" /\ last.sheet = "sde_sheet"
    /\ revision["sde_sheet"] # <<>>
    /\ HistoryList(history["dbms_core_sheet"]) # <<>>
    /\ revision["dbms_core_sheet"] = <<>>

\* C14: create_handler, in both factories, returns a handler for every
\* identifier of the registry and raises ValueError for every other
\* identifier; it never answers an unknown identifier with a handler
C14_FactoryTotalOnRegistry ==
    last.op = "create_handler" =>
        /\ last.sheet \in SHEET_TYPES =>
              last.outcome = "handler" /\ last.handler # ""
        /\ last.sheet \notin SHEET_TYPES =>
              last.outcome = "ValueError" /\ last.handler = ""

\* C15: POST /mark-revision and GET /revision-list answer an identifier
\* outside the registry with a 4xx status, never 5xx, and change nothing
C15_UnknownSheetIsClientError ==
    ( last.op \in {"mark", "revision_list"} /\ last.sheet \notin SHEET_TYPES )
        => last.status >= 400 /\ last.status < 500

\* what the caller of a select-topic call is given: the HTTP answer, or the
\* line process logs before it returns
Reported(c) == IF c.via = "http" THEN <<c.status, c.detail>> ELSE <<c.outcome>>

\* C16: the outcome select-topic reports when no unsolved topic remains
\* differs from the one it reports when the topic store cannot be read
C16_NoTopicsDistinctFromFailure ==
    [][ ( /\ last.op \in {"select", "process"} /\ last'.op = last.op
          /\ "no_unsolved" \in {last.outcome, last'.outcome}
          /\ {last.outcome, last'.outcome} \cap {"db_error", "db_unavailable"}
                # {} )
        => Reported(last) # Reported(last') ]_vars

\* C17: a select-topic call whose read of the topic store fails ends with a
\* failure outcome and no topic, after the one attempt, and leaves the ids of
\* the history and the revision record as they were
C17_StoreFailureIsFatal ==
    [][ ( last'.op \in {"select", "process"}
          /\ last'.fault \in {"db", "connect"} ) =>
          /\ last'.outcome \in {"db_error", "db_unavailable"}
          /\ last'.rid = <<>> /\ last'.tix = 0
          /\ last'.via = "http" => last'.status >= 500
          /\ \A s \in Sheets :
                /\ HistoryList(history'[s]) = HistoryList(history[s])
                /\ revision'[s] = revision[s] ]_vars

\* the find of an HTTP select failed on a sheet that has a recorded history
\* and a topic still to give
C17_Witness ==
    /\ last.op = "select" /\ last.fault = "db" /\ last.outcome = "db_error"
    /\ HistoryList(history[last.sheet]) # <<>>
    /\ remove_solved(topics[last.sheet], HistoryList(history[last.sheet])) # <<>>

\* C18: a select-topic call in which update_history's write fails does not
\* end as a success that returns the topic
C18_WriteFailureReported ==
    ( last.op \in {"select", "process"} /\ last.fault = "write" )
        => last.outcome # "topic"

\* C19: select-topic never returns a record that has no id field, and no
\* placeholder for a missing id is ever in a history
C19_IdlessNeverReturned ==
    /\ Selected(last) => topics[last.sheet][last.tix].id # NoId
    /\ \A s \in Sheets :
          HistoryIds(history[s]) \cap {Unknown, str(NoId)} = {}

\* C20: mark-revision with an empty or absent topic id is answered without
\* an error and leaves the history and the revision record unchanged
C20_EmptyIdIsNoOp ==
    [][ ( /\ last'.op = "mark" /\ last'.sheet \in SHEET_TYPES
          /\ last'.arg \in {<<>>, AbsentId} ) =>
          /\ last'.status < 400
          /\ history' = history
          /\ revision' = revision ]_vars

\* C21: the revision record is append-only: every step keeps the lines the
\* revision file of each sheet type had, in place, so an id once in it stays
C21_RevisionAppendOnly ==
    [][ \A s \in Sheets :
          /\ Len(revision'[s]) >= Len(revision[s])
          /\ SubSeq(revision'[s], 1, Len(revision[s])) = revision[s] ]_vars

\* a mark-revision has added a second, different line to a revision file
C21_Witness ==
    /\ Marked(last) /\ last.outcome \in {"marked", "topic"}
    /\ Len(revision[last.sheet]) = 2
    /\ revision[last.sheet][1] # revision[last.sheet][2]

\* C22: an id enters the revision record of a sheet type only if it was in
\* the history (selected) before or is the topic this very call selected, and
\* an id of the revision record never drops out of both records
C22_TopicLifecycle ==
    [][ \A s \in Sheets :
          /\ \A x \in Range(revision'[s]) \ Range(revision[s]) :
                \/ x \in HistoryIds(history[s])
                \/ Selected(last') /\ last'.sheet = s /\ last'.rid = x
          /\ \A x \in Range(revision[s]) :
                x \in Range(revision'[s]) \cup HistoryIds(history'[s]) ]_vars

\* C23: no select-topic or mark-revision call changes the topic store
C23_TopicsImmutable == [][ topics' = topics ]_vars

\* both topics of a sheet have been selected and both are still stored
C23_Witness ==
    /\ Selected(last)
    /\ Len(topics[last.sheet]) = 2
    /\ Len(HistoryList(history[last.sheet])) = 2

\* the sheet types whose name contains the text, case ignored, in the order
\* of the registry
Matching(text) ==
    SelectSeq(SheetNames, LAMBDA sheet :
        \E i \in 0..(Len(sheet) - Len(text)) :
            \A j \in 1..Len(text) : lower_char(sheet[i + j]) = lower_char(text[j]))

\* a typed input that is a filter text: not empty, not digits, not "random"
TypedText(inp) ==
    inp # <<>> /\ ~isdigit(inp) /\ lower(inp) # <<"r", "a", "n", "d", "o", "m">>

\* C24: filtering the sheet types by a text returns exactly the sheet types
\* whose identifier contains it as a case-insensitive substring, in registry
\* order
C24_FilterByText ==
    /\ last.op = "filter_sheets" => last.result = Matching(last.text)
    /\ (last.op = "get_sheet_type" /\ TypedText(last.text)) =>
          last.outcome = "list" /\ last.result = Matching(last.text)

\* C25: selecting a sheet type by index, at the prompt of the server factory
\* or through /select-topic, is bounds-checked: an index inside
\* [0, len) yields the entry at that index, an index outside yields an empty
\* result or a client error, never an exception or a 500 response
C25_IndexBoundsChecked ==
    /\ (last.op = "get_sheet_type" /\ last.via = "server" /\ isdigit(last.text)) =>
          /\ last.outcome = "list"
          /\ last.result = IF int(last.text) < Len(SheetNames)
                           THEN <<SheetNames[int(last.text) + 1]>>
                           ELSE <<>>
    /\ (last.op = "resolve" /\ last.index.given /\ ~last.flag) =>
          LET kept == IF last.text = <<>> THEN SheetNames ELSE Matching(last.text)
          IN  IF 0 <= last.index.n /\ last.index.n < Len(kept)
              THEN last.status = 200 /\ last.result = <<kept[last.index.n + 1]>>
              ELSE kept # <<>> => last.status \in {400, 404, 422}

RECURSIVE Decoded(_)
Decoded(q) ==
    IF q = <<>> THEN <<>>
    ELSE IF Head(q) = "+" THEN <<" ">> \o Decoded(Tail(q))
    ELSE IF Head(q) = "%" /\ Len(q) >= 3
         THEN <<CHOOSE c \in DOMAIN PercentCodes : PercentCodes[c] = SubSeq(q, 1, 3)>>
                  \o Decoded(SubSeq(q, 4, Len(q)))
    ELSE <<Head(q)>> \o Decoded(Tail(q))

Count(q, c) == Cardinality({i \in 1..Len(q) : q[i] = c})

\* C27: the link is "https://www.google.com/search?q=", then the title with
\* its spaces replaced by '+' and its reserved characters percent-encoded,
\* then "+site%3A" and the handler's domain; "Two Sum" on leetcode.com gives
\* https://www.google.com/search?q=Two+Sum+site%3Aleetcode.com
C27_CreateLink ==
    last.op = "title" =>
        LET pre == <<"h", "t", "t", "p", "s", ":", "/", "/", "w", "w", "w", ".", "g", "o", "o", "g", "l", "e", ".", "c", "o", "m", "/", "s", "e", "a", "r", "c", "h", "?", "q", "=">>
            suf == <<"+", "s", "i", "t", "e", "%", "3", "A">> \o site(last.sheet)
            mid == SubSeq(last.link, Len(pre) + 1, Len(last.link) - Len(suf))
        IN  /\ Len(last.link) >= Len(pre) + Len(suf)
            /\ SubSeq(last.link, 1, Len(pre)) = pre
            /\ SubSeq(last.link, Len(last.link) - Len(suf) + 1, Len(last.link)) = suf
            /\ Range(mid) \subseteq Unreserved \cup {"+", "%"}
            /\ \A i \in 1..Len(mid) : mid[i] = "%" =>
                  /\ i + 2 <= Len(mid)
                  /\ \E c \in DOMAIN PercentCodes \ Unreserved :
                        PercentCodes[c] = SubSeq(mid, i, i + 2)
            /\ Count(mid, "+") = Count(last.title, " ")
            /\ Decoded(mid) = last.title
            /\ (last.title = <<"T", "w", "o", " ", "S", "u", "m">> /\ site(last.sheet) = <<"l", "e", "e", "t", "c", "o", "d", "e", ".", "c", "o", "m">>) =>
                  last.link = <<"h", "t", "t", "p", "s", ":", "/", "/", "w", "w", "w", ".", "g", "o", "o", "g", "l", "e", ".", "c", "o", "m", "/", "s", "e", "a", "r", "c", "h", "?", "q", "=", "T", "w", "o", "+", "S", "u", "m", "+", "s", "i", "t", "e", "%", "3", "A", "l", "e", "e", "t", "c", "o", "d", "e", ".", "c", "o", "m">>

C27_Witness ==
    /\ last.op = "title" /\ last.sheet = "lc_dsa_75"
    /\ last.title = <<"T", "w", "o", " ", "S", "u", "m">>
    /\ last.link = <<"h", "t", "t", "p", "s", ":", "/", "/", "w", "w", "w", ".", "g", "o", "o", "g", "l", "e", ".", "c", "o", "m", "/", "s", "e", "a", "r", "c", "h", "?", "q", "=", "T", "w", "o", "+", "S", "u", "m", "+", "s", "i", "t", "e", "%", "3", "A", "l", "e", "e", "t", "c", "o", "d", "e", ".", "c", "o", "m">>

\* C28: the title is the field `title` by default, `name` for microsoft_dsa,
\* phonepe_dsa and oracle_dsa, `id` for linux_commands and
\* dsa_common_patterns, and `id` followed by " command" for docker_commands
\* and by " langgraph" for langgraph
C28_TitleFamilyRule ==
    last.op = "title" =>
        LET s == last.sheet
            d == last.doc
        IN  /\ (s \in {"microsoft_dsa", "phonepe_dsa", "oracle_dsa"} /\ d.name # AbsentId) =>
                  last.title = d.name
            /\ (s \in {"linux_commands", "dsa_common_patterns"} /\ d.id # AbsentId) =>
                  last.title = d.id
            /\ (s = "docker_commands" /\ d.id # AbsentId) =>
                  last.title = d.id \o <<" ", "c", "o", "m", "m", "a", "n", "d">>
            /\ (s = "langgraph" /\ d.id # AbsentId) =>
                  last.title = d.id \o <<" ", "l", "a", "n", "g", "g", "r", "a", "p", "h">>
            /\ (s \in SHEET_TYPES \ {"microsoft_dsa", "phonepe_dsa", "oracle_dsa",
                                     "linux_commands", "dsa_common_patterns",
                                     "docker_commands", "langgraph"}
                  /\ d.title # AbsentId) =>
                  last.title = d.title

C28_Witness ==
    /\ last.op = "title" /\ last.sheet = "docker_commands"
    /\ last.doc.id = <<"g", "r", "e", "p">> /\ last.doc.title # AbsentId /\ last.doc.name # AbsentId
    /\ last.title = <<"g", "r", "e", "p">> \o <<" ", "c", "o", "m", "m", "a", "n", "d">>

\* C29: a GET /revision-list/{sheetType} that follows a successful
\* POST /mark-revision of an id for the same sheet type answers with a list
\* that contains that id
C29_RevisionListReflectsMark ==
    [][ ( /\ last.op = "mark" /\ last.via = "http" /\ last.status = 200
          /\ last.outcome = "marked"
          /\ last'.op = "revision_list" /\ last'.sheet = last.sheet
          /\ last'.status = 200 )
        => last.arg \in Range(last'.result) ]_vars

\* C30: a select-topic call never removes progress: every id in the history
\* record when the call starts is still in it when the call ends
C30_SelectKeepsHistory ==
    [][ last'.op \in {"select", "process"} =>
          \A s \in Sheets : HistoryIds(history[s]) \subseteq HistoryIds(history'[s]) ]_vars

\* C31: every run of process (or main) makes at most one random draw and
\* never invokes itself again; on a drawn id that is in the history it stops
C31_OneDrawNoRetry ==
    last.op = "process" =>
        /\ last.draws <= 1
        /\ last.depth <= 1
        /\ last.pc = "done"

\* C32: marking for revision is all-or-nothing: when adding the id to the
\* revision record fails, no id is removed from the history record
C32_MarkAllOrNothing ==
    [][ (Marked(last') /\ last'.fault = "rev") =>
          LET s == last'.sheet
              before == IF last'.op = "process" THEN last'.histSel ELSE history[s]
          IN  /\ revision'[s] = revision[s]
              /\ HistoryIds(before) \subseteq HistoryIds(history'[s]) ]_vars

\* the questions of the valid documents of a directory whose difficulty is
\* the given one, in the order of the documents
ValidDoc(data) == data.ok /\ data.has

RECURSIVE Wanted(_, _)
Wanted(data_array, level) ==
    IF data_array = <<>> THEN <<>>
    ELSE (IF ValidDoc(Head(data_array))
          THEN SelectSeq(Head(data_array).problem_list,
                         LAMBDA item : item.difficulty = level)
          ELSE <<>>) \o Wanted(Tail(data_array), level)

AllValid(data_array) == \A i \in 1..Len(data_array) : ValidDoc(data_array[i])

\* C33: for a sheet type with auxiliary documents, the list a selection draws
\* from is the concatenation of the problem lists of every document of the
\* directory, restricted to the configured difficulty (and to unsolved ids)
C33_AuxSelectionSource ==
    \A s \in AuxSheets \cap DOMAIN history :
        LET data_array == topics[jsons_path(s)]
        IN  AllValid(data_array) =>
              /\ (last.op = "flatten" /\ last.sheet = s) =>
                    last.result = Wanted(data_array, difficulty(s))
              /\ (last.op \in {"select", "process"} /\ last.sheet = s
                    /\ last.outcome # "db_error") =>
                    last.filtered =
                        remove_solved(Wanted(data_array, difficulty(s)), last.solved)

\* C34: an unreadable document, or one without data.problem_list, is skipped
\* alone: the questions of every other document are still returned
C34_BadDocumentSkipped ==
    \A s \in AuxSheets \cap DOMAIN history :
        (last.op = "flatten" /\ last.sheet = s) =>
            last.result = Wanted(topics[jsons_path(s)], difficulty(s))

\* the shape a handler expects: an object whose outer key holds a list and,
\* for the nested types, whose entries are objects holding a list under the
\* sub-list key
WellFormed(sheet_type, data) ==
    /\ data.k = "dict"
    /\ has_key(data, outer_key(sheet_type))
    /\ subscript(data, outer_key(sheet_type)).k = "list"
    /\ sheet_type \in NestedSheets =>
         \A i \in 1..Len(subscript(data, outer_key(sheet_type)).items) :
            LET entry == subscript(data, outer_key(sheet_type)).items[i]
            IN  /\ entry.k = "dict"
                /\ has_key(entry, sub_key(sheet_type))
                /\ subscript(entry, sub_key(sheet_type)).k = "list"

\* the sub-lists of the entries, one after the other
RECURSIVE Concatenation(_, _)
Concatenation(entries, sub) ==
    IF entries = <<>> THEN <<>>
    ELSE subscript(Head(entries), sub).items \o Concatenation(Tail(entries), sub)

Expected(sheet_type, data) ==
    IF sheet_type \in NestedSheets
    THEN Concatenation(subscript(data, outer_key(sheet_type)).items, sub_key(sheet_type))
    ELSE subscript(data, outer_key(sheet_type)).items

\* C35: for a well-formed wrapper the flatten of a server handler returns
\* the sub-lists of the entries of the outer list concatenated in order
\* (topics for sde_sheet, data for the core sheets, questions for the two
\* LeetCode sheets), and the outer array itself for the flat types: nothing
\* dropped, duplicated or reordered.
C35_FlattenConcatenates ==
    (last.op = "flatten" /\ last.via = "server"
       /\ last.sheet \in NestedSheets \cup FlatSheets
       /\ WellFormed(last.sheet, last.data)) =>
        last.flat = Listed(Expected(last.sheet, last.data))

C35_Witness ==
    /\ last.op = "flatten" /\ last.via = "server" /\ last.sheet = "sde_sheet"
    /\ WellFormed(last.sheet, last.data)
    /\ Len(subscript(last.data, K_sheetData).items) = 2
    /\ last.flat = Listed(<<Topic("1"), Topic("2"), Topic("3")>>)

\* an input that is not of the shape the handler expects: no object, no
\* outer key, an outer value that is no list, an outer entry that is no object
Mismatch(sheet_type, data) ==
    \/ data.k # "dict"
    \/ ~has_key(data, outer_key(sheet_type))
    \/ subscript(data, outer_key(sheet_type)).k # "list"
    \/ \E i \in 1..Len(subscript(data, outer_key(sheet_type)).items) :
          subscript(data, outer_key(sheet_type)).items[i].k # "dict"

\* C36: for an input that does not match the expected shape every flatten
\* returns the empty list and raises nothing.
C36_FlattenRejects ==
    (last.op = "flatten" /\ last.sheet \in NestedSheets \cup FlatSheets
       /\ Mismatch(last.sheet, last.data)) =>
        last.flat = Listed(<<>>)

\* C37: for every identifier of the registry create_handler of the server
\* succeeds and the handler's file_name is that identifier; for the core
\* sheets the subject is the part of the identifier before its first
\* underscore and is one of dbms, os, cn.
C37_HandlerBoundToSheet ==
    (last.op = "create_handler" /\ last.via = "server"
       /\ last.sheet \in SHEET_TYPES) =>
        /\ last.outcome = "handler"
        /\ last.fname = Spelled(last.sheet)
        /\ last.handler = "CoreSheetHandler" =>
              /\ last.subj \in Subjects
              /\ "_" \notin Range(last.subj)
              /\ SubSeq(Spelled(last.sheet), 1, Len(last.subj) + 1)
                    = last.subj \o <<"_">>

C37_Witness ==
    /\ last.op = "create_handler" /\ last.via = "server"
    /\ last.sheet = "dbms_core_sheet" /\ last.outcome = "handler"
    /\ last.subj = <<"d", "b", "m", "s">>
    /\ Len(last.fname) = 15

\* C38: POST /select-topic resolves the sheet type within the text-filtered
\* list: with random_selection a member of it, otherwise with selected_index
\* its entry at that index, otherwise its first entry; a request that is
\* answered with an error resolves to no sheet type.
C38_ResolvedWithinFiltered ==
    last.op = "resolve" =>
        LET kept == IF last.text = <<>> THEN SheetNames ELSE Matching(last.text)
        IN  IF last.outcome = "sheet"
            THEN /\ Len(last.result) = 1
                 /\ last.result[1] \in Range(kept)
                 /\ (~last.flag /\ last.index.given) =>
                        last.result[1] = kept[last.index.n + 1]
                 /\ (~last.flag /\ ~last.index.given) =>
                        last.result[1] = kept[1]
            ELSE last.result = <<>>

\* an index that names different entries in the filtered list and the registry
C38_Witness ==
    /\ last.op = "resolve" /\ last.outcome = "sheet"
    /\ last.text = <<"C", "o", "r", "e">>
    /\ ~last.flag /\ last.index = Index(0)
    /\ last.result = <<SheetNames[2]>>
    /\ SheetNames[last.index.n + 1] # SheetNames[2]

\* C39: the bot sends a mark-revision request only while the conversation is
\* in CONFIRM_REVISION, only after a select-topic request of that
\* conversation succeeded, only with the sheet_type and topic_id that
\* request returned, and at most once for a selected topic.
C39_MarkOnlyForSelected ==
    /\ (last.op = "callback" /\ last.sent) =>
          /\ last.state = CONFIRM_REVISION
          /\ last.selected.set
          /\ last.topic = last.selected
    /\ \A c \in Procs : calls.conversations[c].marks <= 1

====
